---- MODULE Spec2Model ----
(***************************************************************************)
(* A model of the thread-caching allocator of src/mem_allocator            *)
(* (allocator.h, allocator.cpp): size classes, per-thread caches, the      *)
(* per-class transfer caches, the page heap with its page map, and the     *)
(* bump pool of span descriptors, with the callers that drive them.        *)
(*                                                                         *)
(* Memory is word-addressed by byte address: mem[a] is the 8-byte word at  *)
(* address a.  The same word is BlockHeader::size while a block is         *)
(* allocated and FreeBlockHeader::next while it is on a free list.         *)
(*                                                                         *)
(* A size_t value x is written as an integer e: e >= 0 stands for x = e,   *)
(* and e < 0 stands for x = 2^64 + e, so that + and - on the integers are  *)
(* + and - modulo 2^64 near both ends of the range.  Comparisons of        *)
(* size_t values go through ULe/UGt, which order the values as unsigned.   *)
(***************************************************************************)
EXTENDS Integers, Sequences, FiniteSets, TLC

\* ---- bounds of the model ------------------------------------------------
NumThreads == 2
MaxPages == 3
MaxCalls == 3
MaxIter == 4
MaxProbe == 1100

\* ---- program constants ---------------------------------------------------
PAGE_SHIFT == 12
PAGE_SIZE == 4096
NUM_CLASSES == 8
MAX_SMALL_ALLOC_SIZE == 1024
SCAVENGE_THRESHOLD == 128
BATCH == 32
HEADER_SIZE == 8
SPAN_SIZE == 40
SPAN_POOL_BYTES == 4096 * 10
SIZE_CLASSES == <<8, 16, 32, 64, 128, 256, 512, 1024>>
NULL == 0
SIZE_MAX == 0 - 1

Threads == 1 .. NumThreads
Classes == 0 .. (NUM_CLASSES - 1)
Pages == 1 .. MaxPages

\* ---- size_t arithmetic ---------------------------------------------------
ULe(a, b) == IF (a < 0) = (b < 0) THEN a <= b ELSE b < 0
UGt(a, b) == ~ULe(a, b)
\* x << PAGE_SHIFT and x >> PAGE_SHIFT; \div rounds down, so a wrapped value
\* keeps its meaning (2^52 + e \div 4096 pages, 2^64 + e * 4096 bytes).
ShiftL(x) == x * PAGE_SIZE
ShiftR(x) == x \div PAGE_SIZE

\* ---- size classes (allocator.cpp 33-43) ------------------------------------
\* A scan that compares with < where the code compares with <=.
RECURSIVE ClassScanStrict(_, _)
ClassScanStrict(size, i) ==
  IF i >= NUM_CLASSES THEN NUM_CLASSES
  ELSE IF ~ULe(SIZE_CLASSES[i + 1], size) THEN i
  ELSE ClassScanStrict(size, i + 1)

getSizeClassIndexStrict(size) == ClassScanStrict(size, 0)

RECURSIVE ClassScan(_, _)
ClassScan(size, i) ==
  IF i >= NUM_CLASSES THEN NUM_CLASSES
  ELSE IF ULe(size, SIZE_CLASSES[i + 1]) THEN i
  ELSE ClassScan(size, i + 1)

getSizeClassIndex(size) == ClassScan(size, 0)

\* A table lookup that is one entry low.
getClassSizeFromIndexLow(idx) ==
  IF idx >= NUM_CLASSES \/ idx = 0 THEN 0 ELSE SIZE_CLASSES[idx]

\* A class size that counts the header in.
getClassSizeFromIndexGross(idx) ==
  IF idx >= NUM_CLASSES THEN 0 ELSE SIZE_CLASSES[idx + 1] + HEADER_SIZE

getClassSizeFromIndex(idx) ==
  IF idx >= NUM_CLASSES THEN 0 ELSE SIZE_CLASSES[idx + 1]

\* ---- state ---------------------------------------------------------------
VARIABLES
  mode,              \* the workload the callers run: "free", "scav", "churn", "probe"
  mem,               \* mapped words that have been written: address -> word
  os_mapped,         \* page ids the OS has mapped for this process
  page_map,          \* PageHeap::page_map: page id -> Span*
  spans,             \* span descriptors in span_memory: Span* -> fields
  live_spans,        \* spans allocateSpan returned, not yet given to deallocateSpan
  span_offset,       \* bytes of span_memory handed out
  ph_mtx,            \* PageHeap::mtx: 0 or the thread holding it
  span_alloc_mutex,  \* 0 or the thread holding it
  tc_list,           \* transfer_caches[c].list
  tc_count,          \* transfer_caches[c].count
  tc_mtx,            \* transfer_caches[c].mtx: 0 or the thread holding it
  free_lists,        \* my_cache.free_lists of each thread
  list_lengths,      \* my_cache.list_lengths of each thread
  pc,                \* where each thread is inside allocate / deallocate
  size,              \* allocate's argument, or the size deallocate read
  index,             \* the class index local of the running call
  num_pages,         \* allocateSpan's argument
  new_mem,           \* allocateSpan's mapping (its first page id)
  span,              \* the Span* local of the running call (0: nullptr)
  caller,            \* who called allocateSpan: "large" or "fetch"
  ret,               \* what the last allocate of each thread returned
  live,              \* pointers returned by allocate and not yet freed
  calls,             \* calls each thread has started
  nlock,             \* Transfer Cache locks each thread has taken, by the call it was in
  nfree,             \* deallocate calls the scavenging worker has made
  op,                \* the call each thread is in, or made last
  ptr,               \* deallocate's argument
  probe,             \* inputs and outputs of the size-class probe
  in_allocator,      \* the hooks' recursion guard of each thread
  malloc_nodes,      \* page ids whose page_map node came from std::malloc
  reentered,         \* a nested operator new/delete of the thread called g_allocator
  task_queue,        \* the web server's queue of client fds
  epoll_set,         \* client fds registered with the epoll instance
  ready,             \* registered fds with a readiness event not yet reported
  fd_state,          \* each connection's fd at the server: "none", "backlog", "open", "closed"
  closes,            \* close() calls the server has made on each connection's fd
  sockbuf,           \* fragments received on each connection, not yet read
  client,            \* each client: its state and the fragments it has still to send
  sent,              \* status codes the server has written to each connection
  fs_log,            \* paths the server has asked the filesystem about
  worker,            \* each worker thread: its position and handle_client_request's locals
  nreq,              \* request lines the clients have started to send
  parent,            \* the container launcher: where main is, and its command counter
  child,             \* the cloned child: where child_func is, or "none" before clone
  veth1,             \* the namespace veth1 is in: "absent", "host" or "child"
  host_net,          \* the host's network commands that have taken effect
  child_net,         \* outcome of each network command of the child
  q_mutex,           \* ThreadSafeQueue::mutex_: 0 when free, else the worker holding it
  shutdown,          \* ThreadSafeQueue::shutdown_
  cv_waiters,        \* workers blocked in cv_.wait
  popped,            \* what pop has returned so far: the item and the worker
  main_pc            \* where the server's main is: "loop", "flag", "notify", "join", "end"

vars == <<mode, mem, os_mapped, page_map, spans, live_spans, span_offset, ph_mtx,
          span_alloc_mutex, tc_list, tc_count, tc_mtx, free_lists,
          list_lengths, pc, size, index, num_pages, new_mem, span, caller,
          ret, live, calls, nfree, nlock, op, ptr, probe, in_allocator,
          malloc_nodes, reentered, task_queue, epoll_set, ready, fd_state,
          closes, sockbuf, client, sent, fs_log, worker, nreq, parent, child,
          veth1, host_net, child_net, q_mutex, shutdown, cv_waiters, popped,
          main_pc>>

heapVars == <<os_mapped, page_map, spans, live_spans, span_offset, ph_mtx,
              span_alloc_mutex>>
tcVars == <<tc_list, tc_count, tc_mtx>>
cacheVars == <<free_lists, list_lengths>>
localVars == <<index, num_pages, new_mem, span, caller>>
callVars == <<size, ptr, op, ret, live, calls, nfree, nlock>>
hookVars == <<in_allocator, malloc_nodes, reentered>>
webVars == <<task_queue, epoll_set, ready, fd_state, closes, sockbuf, client,
             sent, fs_log, worker, nreq>>
boxVars == <<parent, child, veth1, host_net, child_net>>
queueVars == <<q_mutex, shutdown, cv_waiters, popped, main_pc>>
\* What the allocator's steps never touch.
sideVars == <<probe, webVars, boxVars, queueVars>>

\* ---- memory and intrusive lists ------------------------------------------
Read(m, a) == IF a \in DOMAIN m THEN m[a] ELSE 0

Write(m, a, v) == (a :> v) @@ m

PageOf(a) == ShiftR(a)

\* Lists are walked a stretch of Stretch blocks at a time.
Stretch == 4 * 4

\* The first k blocks (or fewer) reached from head by following next.
RECURSIVE WalkStretch(_, _, _)
WalkStretch(m, head, k) ==
  IF head = NULL \/ k = 0 THEN <<>>
  ELSE <<head>> \o WalkStretch(m, Read(m, head), k - 1)

\* The blocks reached from head by following next, in order; a walk that
\* has not ended after more blocks than there are words goes round a cycle
\* and stops.
RECURSIVE Walk(_, _, _)
Walk(m, head, fuel) ==
  LET c == WalkStretch(m, head, Stretch)
  IN  IF Len(c) < Stretch \/ fuel <= 0 THEN c
      ELSE c \o Walk(m, Read(m, c[Stretch]), fuel - Stretch)

ListSeq(m, head) == Walk(m, head, Cardinality(DOMAIN m))
ListLen(m, head) == Len(ListSeq(m, head))
Cyclic(m, head) ==
  LET s == ListSeq(m, head)
  IN  s # <<>> /\ Read(m, s[Len(s)]) # NULL

Range(s) == {s[i] : i \in 1 .. Len(s)}
Min(a, b) == IF a <= b THEN a ELSE b

\* ---- std::mutex ----------------------------------------------------------
\* A lock that is never granted.
LockFreeNever(mtx) == FALSE

\* A lock that excludes nobody.
LockFreeAlways(mtx) == TRUE

\* std::lock_guard's constructor returns once no thread holds the mutex.
LockFree(mtx) == mtx = 0

\* ---- the OS ----------------------------------------------------------------
\* mmap(nullptr, length, ...): the first page id of any unmapped run of
\* length bytes, or 0 for MAP_FAILED.  A length of 0 (EINVAL) or one beyond
\* the address space (ENOMEM) always fails; any call may fail.
MmapResults(mapped, length) ==
  {0} \cup
  IF length <= 0 THEN {}
  ELSE {p \in Pages :
          /\ p + ShiftR(length) - 1 <= MaxPages
          /\ \A q \in p .. (p + ShiftR(length) - 1) : q \notin mapped}

\* munmap(addr, length): the pages go, and the words stored in them.
\* An munmap whose length is one page short.
UnmapPagesShort(mapped, start, n) == mapped \ (start .. (start + n - 2))

UnmapPages(mapped, start, n) == mapped \ (start .. (start + n - 1))

UnmapWords(m, start, n) ==
  [a \in {x \in DOMAIN m : PageOf(x) \notin start .. (start + n - 1)} |-> m[a]]

\* ---- allocate_span_memory (allocator.cpp 22-30) --------------------------
\* A Span* is the descriptor's position in span_memory, counted from 1.
SpanPtr(offset) == offset \div SPAN_SIZE + 1

\* A bounds test that forgets the size of the descriptor asked for.
PoolHasRoomAtEnd(offset) == ~(offset > SPAN_POOL_BYTES)

PoolHasRoom(offset) == ~(offset + SPAN_SIZE > SPAN_POOL_BYTES)

\* ---- the hooks of operator new and delete (benchmark.cpp 13-55) ------------
\* The callers reach allocate and deallocate through operator new and
\* operator delete; std::map's nodes of the page map come from operator
\* new and go back through operator delete on the thread that is inside
\* allocateSpan or deallocateSpan.

\* A hook that never finds the guard set.
GuardedNever(flag) == FALSE

\* benchmark.cpp 18, 28, 38, 48: the hook's test of in_allocator.
Guarded(flag) == flag

\* 21-23, 32-34, 41-43, 52-54: the flag is set before g_allocator is
\* called and cleared when the call has returned.
HookFlag(t) == in_allocator' = [in_allocator EXCEPT ![t] = pc'[t] # "idle"]

\* What std::malloc returns to an operator new that finds the guard set: an
\* address of the C library's heap, outside every page the allocator maps.
SysPtr == 2 * HEADER_SIZE

\* allocator.cpp 75: page_map[id] = span makes one node for every page id
\* that is not a key yet, by operator new on the thread inside allocateSpan.
NestedNew(t, pages) ==
  IF pages = {} THEN UNCHANGED <<malloc_nodes, reentered>>
  ELSE IF Guarded(in_allocator[t])
  THEN /\ malloc_nodes' = malloc_nodes \cup pages
       /\ UNCHANGED reentered
  ELSE /\ reentered' = [reentered EXCEPT ![t] = TRUE]
       /\ UNCHANGED malloc_nodes

\* allocator.cpp 84: page_map.erase(id) gives the node of every key it
\* finds to operator delete on the thread inside deallocateSpan.
NestedDelete(t, pages) ==
  IF pages = {} THEN UNCHANGED <<malloc_nodes, reentered>>
  ELSE IF Guarded(in_allocator[t])
  THEN /\ malloc_nodes' = malloc_nodes \ pages
       /\ UNCHANGED reentered
  ELSE /\ reentered' = [reentered EXCEPT ![t] = TRUE]
       /\ UNCHANGED malloc_nodes

\* ---- PageHeap (allocator.cpp 46-87) ----------------------------------------
lookupSpan(pm, a) == IF PageOf(a) \in DOMAIN pm THEN pm[PageOf(a)] ELSE NULL

\* A page-map insert that enters the span's first page only.
InsertPagesFirstOnly(pm, sp, start, n) ==
  [q \in DOMAIN pm \cup {start} |-> IF q = start THEN sp ELSE pm[q]]

InsertPages(pm, sp, start, n) ==
  [q \in DOMAIN pm \cup (start .. (start + n - 1)) |->
     IF q \in start .. (start + n - 1) THEN sp ELSE pm[q]]

\* A page-map erase that removes the span's first page only.
ErasePagesFirstOnly(pm, start, n) == [q \in DOMAIN pm \ {start} |-> pm[q]]

ErasePages(pm, start, n) ==
  [q \in DOMAIN pm \ (start .. (start + n - 1)) |-> pm[q]]

\* Where allocateSpan returns to.
AfterSpan(t) == IF caller[t] = "large" THEN "large_ret" ELSE "f_carve"

\* allocateSpan 54-59: take the lock and map; a failed mapping returns nullptr.
ASLock(t) ==
  /\ pc[t] = "as_lock"
  /\ LockFree(ph_mtx)
  /\ \E r \in MmapResults(os_mapped, ShiftL(num_pages[t])) :
       IF r = 0
       THEN /\ span' = [span EXCEPT ![t] = NULL]
            /\ pc' = [pc EXCEPT ![t] = AfterSpan(t)]
            /\ UNCHANGED <<os_mapped, ph_mtx, new_mem>>
       ELSE /\ os_mapped' = os_mapped \cup (r .. (r + num_pages[t] - 1))
            /\ new_mem' = [new_mem EXCEPT ![t] = r]
            /\ ph_mtx' = t
            /\ pc' = [pc EXCEPT ![t] = "sm_lock"]
            /\ UNCHANGED span
  /\ UNCHANGED <<mode, mem, page_map, spans, live_spans, span_offset,
                 span_alloc_mutex, tcVars, cacheVars, index, num_pages,
                 caller, callVars, sideVars, hookVars>>

\* allocate_span_memory 23: take span_alloc_mutex.
SMLock(t) ==
  /\ pc[t] = "sm_lock"
  /\ LockFree(span_alloc_mutex)
  /\ span_alloc_mutex' = t
  /\ pc' = [pc EXCEPT ![t] = "sm_bump"]
  /\ UNCHANGED <<mode, mem, os_mapped, page_map, spans, live_spans,
                 span_offset, ph_mtx, tcVars, cacheVars, localVars, callVars,
                 sideVars, hookVars>>

\* allocate_span_memory 24-29: bump the pool, or nullptr when it is full.
SMBump(t) ==
  /\ pc[t] = "sm_bump"
  /\ IF PoolHasRoom(span_offset)
     THEN /\ span' = [span EXCEPT ![t] = SpanPtr(span_offset)]
          /\ span_offset' = span_offset + SPAN_SIZE
     ELSE /\ span' = [span EXCEPT ![t] = NULL]
          /\ UNCHANGED span_offset
  /\ span_alloc_mutex' = 0
  /\ pc' = [pc EXCEPT ![t] = "as_fill"]
  /\ UNCHANGED <<mode, mem, os_mapped, page_map, spans, live_spans, ph_mtx,
                 tcVars, cacheVars, index, num_pages, new_mem, caller,
                 callVars, sideVars, hookVars>>

\* allocateSpan 63-77: without a descriptor unmap and fail; else fill the
\* descriptor, enter every page in the page map, and return it.
ASFill(t) ==
  /\ pc[t] = "as_fill"
  /\ IF span[t] = NULL
     THEN /\ os_mapped' = UnmapPages(os_mapped, new_mem[t], num_pages[t])
          /\ UNCHANGED <<spans, page_map, live_spans, malloc_nodes, reentered>>
     ELSE /\ spans' = [x \in DOMAIN spans \cup {span[t]} |->
                         IF x = span[t]
                         THEN [start_page_id |-> new_mem[t],
                               num_pages |-> num_pages[t]]
                         ELSE spans[x]]
          /\ page_map' = InsertPages(page_map, span[t], new_mem[t], num_pages[t])
          /\ live_spans' = live_spans \cup {span[t]}
          /\ NestedNew(t, (new_mem[t] .. (new_mem[t] + num_pages[t] - 1))
                            \ DOMAIN page_map)
          /\ UNCHANGED os_mapped
  /\ ph_mtx' = 0
  /\ pc' = [pc EXCEPT ![t] = AfterSpan(t)]
  /\ UNCHANGED <<mode, mem, span_offset, span_alloc_mutex, tcVars, cacheVars,
                 localVars, callVars, sideVars, in_allocator>>

\* lookupSpan 46-51, called by deallocate 207-208.
DLookup(t) ==
  /\ pc[t] = "d_lookup"
  /\ LockFree(ph_mtx)
  /\ span' = [span EXCEPT ![t] = lookupSpan(page_map, ptr[t] - HEADER_SIZE)]
  /\ pc' = [pc EXCEPT ![t] = IF span'[t] = NULL THEN "idle" ELSE "ds_lock"]
  /\ HookFlag(t)
  /\ UNCHANGED <<mode, mem, heapVars, tcVars, cacheVars, index, num_pages,
                 new_mem, caller, callVars, sideVars, malloc_nodes, reentered>>

\* deallocateSpan 81-82: take the lock and unmap the span's pages.
DSLock(t) ==
  /\ pc[t] = "ds_lock"
  /\ LockFree(ph_mtx)
  /\ ph_mtx' = t
  /\ os_mapped' = UnmapPages(os_mapped, spans[span[t]].start_page_id,
                             spans[span[t]].num_pages)
  /\ mem' = UnmapWords(mem, spans[span[t]].start_page_id,
                       spans[span[t]].num_pages)
  /\ live_spans' = live_spans \ {span[t]}
  /\ pc' = [pc EXCEPT ![t] = "ds_erase"]
  /\ UNCHANGED <<mode, page_map, spans, span_offset, span_alloc_mutex,
                 tcVars, cacheVars, localVars, callVars, sideVars, hookVars>>

\* deallocateSpan 83-87: erase the span's pages from the page map.
DSErase(t) ==
  /\ pc[t] = "ds_erase"
  /\ page_map' = ErasePages(page_map, spans[span[t]].start_page_id,
                            spans[span[t]].num_pages)
  /\ NestedDelete(t, (spans[span[t]].start_page_id ..
                       (spans[span[t]].start_page_id
                          + spans[span[t]].num_pages - 1))
                      \cap DOMAIN page_map)
  /\ ph_mtx' = 0
  /\ pc' = [pc EXCEPT ![t] = "idle"]
  /\ HookFlag(t)
  /\ UNCHANGED <<mode, mem, os_mapped, spans, live_spans, span_offset,
                 span_alloc_mutex, tcVars, cacheVars, localVars, callVars,
                 sideVars>>

\* One cache shared by all the threads.
CacheOfShared(t) == 1

\* allocator.cpp 11: my_cache is thread_local, every thread has a cache of
\* its own; my_cache in a call of thread t is t's.
CacheOf(t) == t

\* ---- fetchFromTransferCache (allocator.cpp 90-137) -----------------------
\* A block count that is rounded up: the last block runs over the page.
NumBlocksCeil(block_size) ==
  (PAGE_SIZE + block_size + HEADER_SIZE - 1) \div (block_size + HEADER_SIZE)

\* 101-103: blocks carved from one page.
NumBlocks(block_size) ==
  LET n == PAGE_SIZE \div (block_size + HEADER_SIZE)
  IN  IF n = 0 THEN 1 ELSE n

\* A carving loop that stops one block early (i + 1 < n for i < n), while
\* the count still grows by n.
CarveLoopShort(m, list, start, actual_block_size, n) ==
  LET blocks == {start + i * actual_block_size : i \in 0 .. (n - 2)}
  IN  [mem |-> [a \in blocks |->
                  IF a = start THEN list ELSE a - actual_block_size] @@ m,
       list |-> IF n <= 1 THEN list ELSE start + (n - 2) * actual_block_size]

\* 110-115: the loop pushes block 0, 1, ... n-1 of the page at start onto
\* list.  What it leaves: block 0 points to the old list, every later block
\* to the block before it, and the list head is block n-1.
CarveLoop(m, list, start, actual_block_size, n) ==
  LET blocks == {start + i * actual_block_size : i \in 0 .. (n - 1)}
  IN  [mem |-> [a \in blocks |->
                  IF a = start THEN list ELSE a - actual_block_size] @@ m,
       list |-> IF n = 0 THEN list ELSE start + (n - 1) * actual_block_size]

\* 125-127 and 151-154: walk from tail while fewer than limit blocks are
\* counted and there is a next one; [tail, i] when the loop stops.
\* Each iteration works on the values of tail and i, not on the
\* expressions that gave them.
Only(S) == CHOOSE x \in S : TRUE

RECURSIVE TailLoop(_, _, _, _)
TailLoop(m, tail, i, limit) ==
  IF i < limit /\ tail # NULL /\ Read(m, tail) # NULL
  THEN Only({TailLoop(m, next, j, limit) : next \in {Read(m, tail)}, j \in {i + 1}})
  ELSE [tail |-> tail, i |-> i]

\* A walk that stops one block before the limit.
RECURSIVE FindTailEarly(_, _, _, _)
FindTailEarly(m, tail, i, limit) ==
  IF limit - 1 - i <= Stretch THEN TailLoop(m, tail, i, limit - 1).tail
  ELSE Only({IF r.i < i + Stretch THEN r.tail
              ELSE FindTailEarly(m, r.tail, r.i, limit)
              : r \in {TailLoop(m, tail, i, i + Stretch)}})

\* The same loop run a stretch at a time.
RECURSIVE FindTail(_, _, _, _)
FindTail(m, tail, i, limit) ==
  IF limit - i <= Stretch THEN TailLoop(m, tail, i, limit).tail
  ELSE Only({IF r.i < i + Stretch THEN r.tail
              ELSE FindTail(m, r.tail, r.i, limit)
              : r \in {TailLoop(m, tail, i, i + Stretch)}})

\* A transfer whose loop bound is one too high.
BlocksToTransferMore(count) == Min(count, BATCH + 1)

\* 120: blocks moved to the thread cache by one refill.
BlocksToTransfer(count) == Min(count, BATCH)

\* One lock for all the classes.
LockOfGlobal(class_index) == 0

\* 93-94 and 142-143: the lock taken is the class's own,
\* transfer_caches[class_index].mtx.
LockOf(class_index) == class_index

\* 91-98: take the class's lock; an empty central list asks for a span.
FLock(t) ==
  /\ pc[t] = "f_lock"
  /\ LockFree(tc_mtx[LockOf(index[t])])
  /\ tc_mtx' = [tc_mtx EXCEPT ![LockOf(index[t])] = t]
  /\ nlock' = [nlock EXCEPT ![t].alloc = @ + 1]
  /\ IF tc_count[index[t]] = 0
     THEN /\ num_pages' = [num_pages EXCEPT ![t] = 1]
          /\ caller' = [caller EXCEPT ![t] = "fetch"]
          /\ pc' = [pc EXCEPT ![t] = "as_lock"]
     ELSE /\ pc' = [pc EXCEPT ![t] = "f_xfer"]
          /\ UNCHANGED <<num_pages, caller>>
  /\ UNCHANGED <<mode, mem, heapVars, tc_list, tc_count, cacheVars, index,
                 new_mem, span, size, ptr, op, ret, live, calls, nfree, sideVars, hookVars>>

\* 106-117: no span, no refill; else carve the page onto the central list.
FCarve(t) ==
  /\ pc[t] = "f_carve"
  /\ IF span[t] = NULL
     THEN /\ tc_mtx' = [tc_mtx EXCEPT ![LockOf(index[t])] = 0]
          /\ pc' = [pc EXCEPT ![t] = "a_pop"]
          /\ UNCHANGED <<mem, tc_list, tc_count>>
     ELSE LET block_size == getClassSizeFromIndex(index[t])
              n == NumBlocks(block_size)
              c == CarveLoop(mem, tc_list[index[t]],
                             ShiftL(spans[span[t]].start_page_id),
                             block_size + HEADER_SIZE, n)
          IN  /\ mem' = c.mem
              /\ tc_list' = [tc_list EXCEPT ![index[t]] = c.list]
              /\ tc_count' = [tc_count EXCEPT ![index[t]] = @ + n]
              /\ pc' = [pc EXCEPT ![t] = "f_xfer"]
              /\ UNCHANGED tc_mtx
  /\ UNCHANGED <<mode, heapVars, cacheVars, localVars, callVars, sideVars, hookVars>>

\* 119-137: move the first blocks of the central list to the thread cache.
FXfer(t) ==
  /\ pc[t] = "f_xfer"
  /\ LET c == index[t]
         blocks_to_transfer == BlocksToTransfer(tc_count[c])
         head == tc_list[c]
         tail == FindTail(mem, head, 1, blocks_to_transfer)
     IN  IF tail # NULL
         THEN /\ tc_list' = [tc_list EXCEPT ![c] = Read(mem, tail)]
              /\ mem' = Write(mem, tail, NULL)
              /\ tc_count' = [tc_count EXCEPT ![c] = @ - blocks_to_transfer]
              /\ free_lists' = [free_lists EXCEPT ![CacheOf(t)][c] = head]
              /\ list_lengths' = [list_lengths EXCEPT ![CacheOf(t)][c] = blocks_to_transfer]
         ELSE UNCHANGED <<tc_list, mem, tc_count, free_lists, list_lengths>>
  /\ tc_mtx' = [tc_mtx EXCEPT ![LockOf(index[t])] = 0]
  /\ pc' = [pc EXCEPT ![t] = "a_pop"]
  /\ UNCHANGED <<mode, heapVars, localVars, callVars, sideVars, hookVars>>

\* ---- releaseToTransferCache (allocator.cpp 139-164) ----------------------
\* 140-143: nothing to release returns; else take the class's lock.
RLock(t) ==
  /\ pc[t] = "r_lock"
  /\ IF list_lengths[CacheOf(t)][index[t]] = 0
     THEN /\ pc' = [pc EXCEPT ![t] = "idle"]
          /\ UNCHANGED <<tc_mtx, nlock>>
     ELSE /\ LockFree(tc_mtx[LockOf(index[t])])
          /\ tc_mtx' = [tc_mtx EXCEPT ![LockOf(index[t])] = t]
          /\ nlock' = [nlock EXCEPT ![t].free = @ + 1]
          /\ pc' = [pc EXCEPT ![t] = "r_splice"]
  /\ HookFlag(t)
  /\ UNCHANGED <<mode, mem, heapVars, tc_list, tc_count, cacheVars,
                 localVars, size, ptr, op, ret, live, calls, nfree, sideVars,
                 malloc_nodes, reentered>>

\* 146-163: hang the central list behind the thread's list and hand over
\* the whole of it.
RSplice(t) ==
  /\ pc[t] = "r_splice"
  /\ LET c == index[t]
         head == free_lists[CacheOf(t)][c]
         tail == FindTail(mem, head, 1, list_lengths[CacheOf(t)][c])
     IN  /\ mem' = IF tail # NULL THEN Write(mem, tail, tc_list[c]) ELSE mem
         /\ tc_list' = [tc_list EXCEPT ![c] = head]
         /\ tc_count' = [tc_count EXCEPT ![c] = @ + list_lengths[CacheOf(t)][c]]
         /\ free_lists' = [free_lists EXCEPT ![CacheOf(t)][c] = NULL]
         /\ list_lengths' = [list_lengths EXCEPT ![CacheOf(t)][c] = 0]
  /\ tc_mtx' = [tc_mtx EXCEPT ![LockOf(index[t])] = 0]
  /\ pc' = [pc EXCEPT ![t] = "idle"]
  /\ HookFlag(t)
  /\ UNCHANGED <<mode, heapVars, localVars, callVars, sideVars, malloc_nodes,
                 reentered>>

\* ---- the callers -----------------------------------------------------------
\* Sizes the callers of the free workload ask for: nothing, the workload's
\* small size, one page, two pages, and the largest size_t.
SizesFree == {0, mode.size, 2000, 5000, SIZE_MAX}

\* Sizes of the churn workload: both sides of every class boundary, and
\* large sizes of one and two pages.
SizesChurn ==
  {1} \cup {SIZE_CLASSES[i] : i \in 1 .. NUM_CLASSES}
      \cup {SIZE_CLASSES[i] + 1 : i \in 1 .. NUM_CLASSES}
      \cup {2000, 5000}

\* Sizes of the scavenging workload: the classes of which a thread can hold
\* SCAVENGE_THRESHOLD + 1 blocks with MaxPages pages.
SizesScav ==
  {SIZE_CLASSES[i] : i \in {j \in 1 .. NUM_CLASSES :
      NumBlocks(SIZE_CLASSES[j]) * MaxPages > SCAVENGE_THRESHOLD}}

\* Sizes of the cross-class workload: the warm class and the largest class.
SizesCross == {mode.size, MAX_SMALL_ALLOC_SIZE}

\* Sizes of the fair workload: the warm class and one large size.
SizesFair == {mode.size, 2000}

RECURSIVE SumCalls(_)
SumCalls(T) ==
  IF T = {} THEN 0
  ELSE LET t == CHOOSE x \in T : TRUE IN calls[t] + SumCalls(T \ {t})

MinLive == CHOOSE lp \in live : \A o \in live : lp.ptr <= o.ptr
MaxLive == CHOOSE lp \in live : \A o \in live : lp.ptr >= o.ptr
NoRec == [ptr |-> NULL, size |-> 0, owner |-> 0, id |-> 0]

\* "free": the threads make MaxCalls calls between them, each of its
\* caller's choice, freeing any live pointer (its own or another thread's)
\* at most once, or the null pointer.  Pointers with owner 0 are held by
\* callers that free nothing during the run.
\* "fair", "cross": as "free", with two sizes and no null pointer.
\* "churn": thread 1 allocates one block and frees it, MaxIter times.
\* "scav": thread 1 allocates blocks of one size until it holds more than
\* SCAVENGE_THRESHOLD of them and its cache for the class is empty, stopping
\* at the first failure; then it frees SCAVENGE_THRESHOLD + 1 of them in
\* address order, upwards or downwards (the worker of benchmark.cpp 61-83).
ScavClass == getSizeClassIndex(mode.size)

ScavFreeing ==
  \/ nfree > 0
  \/ Cardinality(live) >= SCAVENGE_THRESHOLD + 1 /\ list_lengths[1][ScavClass] = 0
  \/ op[1] = "allocate" /\ pc[1] = "idle" /\ ret[1] = NULL

AllocChoices(t) ==
  CASE mode.kind = "free" ->
         IF SumCalls(Threads) < MaxCalls THEN SizesFree ELSE {}
    [] mode.kind = "fair" ->
         IF SumCalls(Threads) < MaxCalls THEN SizesFair ELSE {}
    [] mode.kind = "cross" ->
         IF SumCalls(Threads) < MaxCalls THEN SizesCross ELSE {}
    [] mode.kind = "churn" ->
         IF t = 1 /\ live = {} /\ calls[t] < 2 * MaxIter THEN {mode.size} ELSE {}
    [] mode.kind = "scav" ->
         IF t = 1 /\ ~ScavFreeing THEN {mode.size} ELSE {}
    [] OTHER -> {}

FreeChoices(t) ==
  CASE mode.kind = "free" ->
         IF SumCalls(Threads) < MaxCalls
         THEN {lp \in live : lp.owner # 0} \cup {NoRec} ELSE {}
    [] mode.kind \in {"fair", "cross"} ->
         IF SumCalls(Threads) < MaxCalls
         THEN {lp \in live : lp.owner # 0} ELSE {}
    [] mode.kind = "churn" -> IF t = 1 THEN live ELSE {}
    [] mode.kind = "scav" ->
         IF t = 1 /\ ScavFreeing /\ live # {} /\ nfree < SCAVENGE_THRESHOLD + 1
         THEN {IF mode.order = "up" THEN MinLive ELSE MaxLive} ELSE {}
    [] OTHER -> {}

\* ---- allocate (allocator.cpp 166-197) --------------------------------------
\* An allocate without the test for a request for nothing.
IsZeroRequestNever(s) == FALSE

\* 167: a request for nothing.
IsZeroRequest(s) == s = 0

\* A large-path test that starts one byte late.
IsLargeLate(s) == UGt(s, MAX_SMALL_ALLOC_SIZE + 1)

\* 170 and 206: a size of the large path.
IsLarge(s) == UGt(s, MAX_SMALL_ALLOC_SIZE)

\* 171-172: pages of a large allocation.
LargePages(s) == ShiftR(s + HEADER_SIZE + (PAGE_SIZE - 1))

\* operator new (benchmark.cpp 17-25, 37-45) and allocate 166-188: with
\* the guard set std::malloc serves the request; else the flag is set and
\* allocate routes the request.
AllocCall(t) ==
  /\ pc[t] = "idle"
  /\ \E s \in AllocChoices(t) :
       /\ size' = [size EXCEPT ![t] = s]
       /\ IF Guarded(in_allocator[t])
          THEN /\ ret' = [ret EXCEPT ![t] = SysPtr]
               /\ UNCHANGED <<pc, index, num_pages, caller, in_allocator>>
          ELSE /\ IF IsZeroRequest(s)
                  THEN /\ ret' = [ret EXCEPT ![t] = NULL]
                       /\ UNCHANGED <<pc, index, num_pages, caller>>
                  ELSE IF IsLarge(s)
                  THEN /\ num_pages' = [num_pages EXCEPT ![t] = LargePages(s)]
                       /\ caller' = [caller EXCEPT ![t] = "large"]
                       /\ pc' = [pc EXCEPT ![t] = "as_lock"]
                       /\ UNCHANGED <<index, ret>>
                  ELSE /\ index' = [index EXCEPT ![t] = getSizeClassIndex(s)]
                       /\ IF index'[t] >= NUM_CLASSES
                          THEN /\ ret' = [ret EXCEPT ![t] = NULL]
                               /\ UNCHANGED pc
                          ELSE /\ pc' = [pc EXCEPT ![t] =
                                           IF free_lists[CacheOf(t)][index'[t]] = NULL
                                           THEN "f_lock" ELSE "a_pop"]
                               /\ UNCHANGED ret
                       /\ UNCHANGED <<num_pages, caller>>
               /\ HookFlag(t)
  /\ op' = [op EXCEPT ![t] = "allocate"]
  /\ calls' = [calls EXCEPT ![t] = @ + 1]
  /\ UNCHANGED <<mode, mem, heapVars, tcVars, cacheVars, new_mem, span,
                 ptr, live, nfree, nlock, sideVars, malloc_nodes, reentered>>

\* 174-178: the large path's result.
LargeRet(t) ==
  /\ pc[t] = "large_ret"
  /\ IF span[t] = NULL
     THEN /\ ret' = [ret EXCEPT ![t] = NULL]
          /\ UNCHANGED <<mem, live>>
     ELSE LET header == ShiftL(spans[span[t]].start_page_id)
          IN  /\ mem' = Write(mem, header, size[t])
              /\ ret' = [ret EXCEPT ![t] = header + HEADER_SIZE]
              /\ live' = live \cup {[ptr |-> header + HEADER_SIZE,
                                     size |-> size[t], owner |-> t,
                                     id |-> calls[t]]}
  /\ pc' = [pc EXCEPT ![t] = "idle"]
  /\ HookFlag(t)
  /\ UNCHANGED <<mode, heapVars, tcVars, cacheVars, localVars, size, ptr, op,
                 calls, nfree, nlock, sideVars, malloc_nodes, reentered>>

\* An allocate that does not look at its list again after the refill.
StillEmptyNever(head) == FALSE

\* 187: the list is still empty after the refill.
StillEmpty(head) == head = NULL

\* 187-196: pop the thread cache and stamp the header.
APop(t) ==
  /\ pc[t] = "a_pop"
  /\ LET c == index[t]
         block == free_lists[CacheOf(t)][c]
     IN  IF StillEmpty(block)
         THEN /\ ret' = [ret EXCEPT ![t] = NULL]
              /\ UNCHANGED <<mem, free_lists, list_lengths, live>>
         ELSE /\ free_lists' = [free_lists EXCEPT ![CacheOf(t)][c] = Read(mem, block)]
              /\ list_lengths' = [list_lengths EXCEPT ![CacheOf(t)][c] = @ - 1]
              /\ mem' = Write(mem, block, getClassSizeFromIndex(c))
              /\ ret' = [ret EXCEPT ![t] = block + HEADER_SIZE]
              /\ live' = live \cup {[ptr |-> block + HEADER_SIZE,
                                     size |-> size[t], owner |-> t,
                                     id |-> calls[t]]}
  /\ pc' = [pc EXCEPT ![t] = "idle"]
  /\ HookFlag(t)
  /\ UNCHANGED <<mode, heapVars, tcVars, localVars, size, ptr, op, calls,
                 nfree, nlock, sideVars, malloc_nodes, reentered>>

\* ---- deallocate (allocator.cpp 199-225) ------------------------------------
\* A deallocate without the test for the null pointer.
IsNullPtrNever(p) == FALSE

\* 200: the null pointer.
IsNullPtr(p) == p = NULL

\* A push that loses the block: the list stays as it was.
PushHeadLost(m, head, block) == [mem |-> m, head |-> head]

\* 218-219: push block onto the list at head; [mem, head] afterwards.
PushHead(m, head, block) == [mem |-> Write(m, block, head), head |-> block]

\* A test with >= for >: it scavenges a cache that is at the threshold.
NeedsScavengeEarly(len) == len >= SCAVENGE_THRESHOLD

\* A test that lets the cache keep one block more before it scavenges.
NeedsScavengeLate(len) == len > SCAVENGE_THRESHOLD + 1

\* 222: the cache has outgrown the threshold.
NeedsScavenge(len) == len > SCAVENGE_THRESHOLD

\* operator delete (benchmark.cpp 27-35, 47-55) and deallocate 199-224 up
\* to the call of lookupSpan or releaseToTransferCache: with the guard set
\* std::free takes the pointer; else the flag is set and deallocate runs.
DeallocCall(t) ==
  /\ pc[t] = "idle"
  /\ \E lp \in FreeChoices(t) :
       /\ ptr' = [ptr EXCEPT ![t] = lp.ptr]
       /\ live' = live \ {lp}
       /\ IF Guarded(in_allocator[t])
          THEN UNCHANGED <<pc, size, index, mem, free_lists, list_lengths,
                           in_allocator>>
          ELSE /\ IF IsNullPtr(lp.ptr)
                  THEN UNCHANGED <<pc, size, index, mem, free_lists, list_lengths>>
                  ELSE LET header == lp.ptr - HEADER_SIZE
                           sz == Read(mem, header)
                           c == getSizeClassIndex(sz)
                       IN  /\ size' = [size EXCEPT ![t] = sz]
                           /\ IF IsLarge(sz)
                              THEN /\ pc' = [pc EXCEPT ![t] = "d_lookup"]
                                   /\ UNCHANGED <<index, mem, free_lists, list_lengths>>
                              ELSE /\ index' = [index EXCEPT ![t] = c]
                                   /\ IF c >= NUM_CLASSES
                                      THEN UNCHANGED <<pc, mem, free_lists, list_lengths>>
                                      ELSE LET p == PushHead(mem, free_lists[CacheOf(t)][c], header)
                                           IN  /\ mem' = p.mem
                                               /\ free_lists' = [free_lists EXCEPT ![CacheOf(t)][c] = p.head]
                                               /\ list_lengths' = [list_lengths EXCEPT ![CacheOf(t)][c] = @ + 1]
                                               /\ pc' = [pc EXCEPT ![t] =
                                                           IF NeedsScavenge(list_lengths'[CacheOf(t)][c])
                                                           THEN "r_lock" ELSE "idle"]
               /\ HookFlag(t)
  /\ op' = [op EXCEPT ![t] = "deallocate"]
  /\ calls' = [calls EXCEPT ![t] = @ + 1]
  /\ nfree' = IF mode.kind = "scav" THEN nfree + 1 ELSE nfree
  /\ UNCHANGED <<mode, heapVars, tcVars, num_pages, new_mem, span, caller,
                 ret, nlock, sideVars, malloc_nodes, reentered>>

\* ---- the end of a thread (benchmark.cpp 61-83, allocator.cpp 11) ------------
\* The thread's function returns between two calls.  my_cache is
\* thread_local and ThreadCache (allocator.h 34-37) has no destructor, so
\* nothing runs on its lists: free_lists[t] keeps what they held at the exit.
ThreadExit(t) ==
  /\ pc[t] = "idle"
  /\ pc' = [pc EXCEPT ![t] = "exited"]
  /\ UNCHANGED <<mode, mem, heapVars, tcVars, cacheVars, localVars, callVars,
                 sideVars, hookVars>>

\* ---- the end of the program (benchmark.cpp 11, 85-126) ----------------------
\* main, on thread 1, has joined the other threads and returns; g_allocator
\* is destroyed with the other statics.  MyAllocator and PageHeap
\* (allocator.h 50-58) declare no destructor, so the implicit one destroys
\* page_map, which gives every node it still has to operator delete on
\* thread 1, outside any call of the allocator.  What deallocate then does
\* with a pointer of std::malloc is undefined, and nothing runs after it.
StaticDestroy ==
  /\ pc[1] = "idle"
  /\ \A u \in Threads \ {1} : pc[u] = "exited"
  /\ NestedDelete(1, DOMAIN page_map)
  /\ page_map' = [q \in {} |-> NULL]
  /\ pc' = [pc EXCEPT ![1] = "destroyed"]
  /\ UNCHANGED <<mode, mem, os_mapped, spans, live_spans, span_offset, ph_mtx,
                 span_alloc_mutex, tcVars, cacheVars, localVars, callVars,
                 sideVars, in_allocator>>

\* ---- the size-class probe --------------------------------------------------
\* Two sizes and what getSizeClassIndex returns for each.
ProbeSizes ==
  {0, 1} \cup {SIZE_CLASSES[i] : i \in 1 .. NUM_CLASSES}
         \cup {SIZE_CLASSES[i] + 1 : i \in 1 .. NUM_CLASSES}
         \cup {MaxProbe, SIZE_MAX}

Probe ==
  /\ mode.kind = "probe"
  /\ ~probe.done
  /\ \E s1 \in (0 .. MaxProbe) \cup {SIZE_MAX}, s2 \in ProbeSizes :
       probe' = [s1 |-> s1, s2 |-> s2, done |-> TRUE,
                 r1 |-> getSizeClassIndex(s1), r2 |-> getSizeClassIndex(s2)]
  /\ UNCHANGED <<mode, mem, heapVars, tcVars, cacheVars, pc, localVars, callVars,
                 hookVars, webVars, boxVars, queueVars>>

\* ---- the web server (server.cpp, src/README.md 60-419) --------------------
\* Connections are numbered; a number stands for the fd accept returns for
\* it and is not used again.  A request line travels as one or more
\* fragments, the last of which ends with "\r\n".  A string is the
\* sequence of its pieces: "." and "/" are characters, every other piece is
\* a run of characters without a dot.
MaxConn == 2
MaxWorkers == 2
MaxReqs == 2
MaxFrag == 2

Conns == 1 .. MaxConn
Workers == 1 .. MaxWorkers

\* README.md 87.
WEB_ROOT == <<".", "/", "public_html">>

\* Request lines the clients send: three tokens, fewer than three (tokens
\* = 2), and a line longer than the read buffer (long).
Line(method, uri, version) ==
  [method |-> method, uri |-> uri, version |-> version, tokens |-> 3,
   long |-> FALSE]
GoodLines ==
  {Line("GET", <<"/", "page">>, "HTTP/1.1"),
   Line("GET", <<"/">>, "HTTP/1.0"),
   Line("GET", <<"/", ".", ".", "/", "etc">>, "HTTP/1.1"),
   Line("GET", <<"/", "a", ".", ".", "b">>, "HTTP/1.0"),
   Line("POST", <<"/", "page">>, "HTTP/1.1")}
BadLine ==
  [method |-> "GET", uri |-> <<"/">>, version |-> "", tokens |-> 2,
   long |-> FALSE]
LongLine ==
  [method |-> "GET", uri |-> <<"/", "page">>, version |-> "HTTP/1.1",
   tokens |-> 3, long |-> TRUE]
RequestLines == GoodLines \cup {BadLine, LongLine}

\* The line r cut into k fragments.
Fragments(r, k) == [i \in 1 .. k |-> [req |-> r, part |-> i, of |-> k]]

\* 194: strstr(buffer, "\r\n") finds the end of a line.
HasLine(buffer) ==
  /\ buffer # << >>
  /\ ~buffer[Len(buffer)].req.long
  /\ buffer[Len(buffer)].part = buffer[Len(buffer)].of

\* 210: total_bytes_read >= sizeof(buffer) - 1.
BufferFull(buffer) == buffer # << >> /\ buffer[Len(buffer)].req.long

\* A path check that looks for "../" only.
FindDotDotSlash(str) ==
  \E i \in 1 .. (Len(str) - 2) :
    str[i] = "." /\ str[i + 1] = "." /\ str[i + 2] = "/"

\* 229: file_path_str.find("..") != npos.
FindDotDot(str) ==
  \E i \in 1 .. (Len(str) - 1) : str[i] = "." /\ str[i + 1] = "."

\* 221-226: the path of the file to serve.
FilePath(uri) ==
  WEB_ROOT \o (IF uri = <<"/">> THEN <<"/", "index", ".", "html">> ELSE uri)

\* 198-204: keep_alive after the request line is parsed.
KeepAliveOfAny(version) == TRUE
KeepAliveOf(version) == version = "HTTP/1.1"

\* 285: the connection is closed after the request.
ClosesAfterInactiveOnly(connection_active, keep_alive) == ~connection_active
ClosesAfter(connection_active, keep_alive) ==
  ~connection_active \/ ~keep_alive

\* What the filesystem answers for a path (235-237).
FsAnswers == {"file", "unreadable", "missing", "dir"}

\* A read() of the connection would not block: data, end of file or error.
Readable(fd) == sockbuf[fd] # << >> \/ client[fd].state \in {"eof", "reset"}

\* handle_client_request's locals at its start (173-180).
NoRequest ==
  [method |-> "", uri |-> << >>, version |-> "", tokens |-> 0, long |-> FALSE]
Locals(fd) ==
  [pc |-> "read", client_fd |-> fd, buffer |-> << >>,
   request_line_parsed |-> FALSE, connection_active |-> TRUE,
   keep_alive |-> FALSE, request |-> NoRequest, status |-> 0]
IdleWorker == [Locals(0) EXCEPT !.pc = "idle"]

allocVars ==
  <<mode, mem, heapVars, tcVars, cacheVars, pc, localVars, callVars, hookVars,
    probe>>

\* A client connects: the connection waits to be accepted.
ClientConnect(fd) ==
  /\ mode.kind = "web"
  /\ client[fd].state = "idle"
  /\ client' = [client EXCEPT ![fd].state = "up"]
  /\ fd_state' = [fd_state EXCEPT ![fd] = "backlog"]
  /\ UNCHANGED <<allocVars, boxVars, queueVars, task_queue, epoll_set, ready, closes, sockbuf,
                 sent, fs_log, worker, nreq>>

\* A client sends the next fragment of its request line, or the first one
\* of a new request once every earlier one has been answered.  Data that
\* arrives on a registered fd makes it ready (edge-triggered).
ClientSend(fd) ==
  /\ client[fd].state = "up"
  /\ fd_state[fd] \in {"backlog", "open"}
  /\ IF client[fd].tosend # << >>
     THEN /\ sockbuf' = [sockbuf EXCEPT ![fd] = Append(@, Head(client[fd].tosend))]
          /\ client' = [client EXCEPT ![fd].tosend = Tail(@)]
          /\ UNCHANGED nreq
     ELSE /\ nreq < MaxReqs
          /\ Len(sent[fd]) >= client[fd].done
          /\ \E r \in RequestLines, k \in 1 .. MaxFrag :
               /\ sockbuf' = [sockbuf EXCEPT ![fd] = Append(@, Fragments(r, k)[1])]
               /\ client' = [client EXCEPT ![fd].tosend = Tail(Fragments(r, k)),
                                           ![fd].done = @ + 1]
          /\ nreq' = nreq + 1
  /\ ready' = IF fd \in epoll_set THEN ready \cup {fd} ELSE ready
  /\ UNCHANGED <<allocVars, boxVars, queueVars, task_queue, epoll_set, fd_state, closes, sent,
                 fs_log, worker>>

\* A client closes its end, or the connection is reset.
ClientClose(fd) ==
  /\ client[fd].state = "up"
  /\ fd_state[fd] \in {"backlog", "open"}
  /\ \E how \in {"eof", "reset"} :
       client' = [client EXCEPT ![fd].state = how]
  /\ ready' = IF fd \in epoll_set THEN ready \cup {fd} ELSE ready
  /\ UNCHANGED <<allocVars, boxVars, queueVars, task_queue, epoll_set, fd_state, closes, sockbuf,
                 sent, fs_log, worker, nreq>>

\* main 377-394: accept, set_non_blocking, EPOLL_CTL_ADD; a failure of
\* either closes the fd.
MainAccept(fd) ==
  /\ fd_state[fd] = "backlog"
  /\ \E outcome \in {"ok", "nonblock_failed", "add_failed"} :
       IF outcome = "ok"
       THEN /\ fd_state' = [fd_state EXCEPT ![fd] = "open"]
            /\ epoll_set' = epoll_set \cup {fd}
            /\ ready' = IF Readable(fd) THEN ready \cup {fd} ELSE ready
            /\ UNCHANGED closes
       ELSE /\ fd_state' = [fd_state EXCEPT ![fd] = "closed"]
            /\ closes' = [closes EXCEPT ![fd] = @ + 1]
            /\ UNCHANGED <<epoll_set, ready>>
  /\ UNCHANGED <<allocVars, boxVars, queueVars, task_queue, sockbuf, client, sent, fs_log,
                 worker, nreq>>

\* An EPOLL_CTL_DEL that is left out.
EpollCtlDelNone(registered, fd) == registered

\* epoll_ctl(epoll_fd, EPOLL_CTL_DEL, fd, NULL) (286, 397, 401).
EpollCtlDel(registered, fd) == registered \ {fd}

\* main 396-404: an event of a client fd: EPOLL_CTL_DEL and queue the fd.
MainEvent(fd) ==
  /\ fd \in ready
  /\ epoll_set' = EpollCtlDel(epoll_set, fd)
  /\ ready' = ready \ {fd}
  /\ task_queue' = Append(task_queue, fd)
  /\ UNCHANGED <<allocVars, boxVars, queueVars, fd_state, closes, sockbuf, client, sent, fs_log,
                 worker, nreq>>

\* worker_loop 304-309: take an fd from the queue.
WorkerPop(w) ==
  /\ worker[w].pc = "idle"
  /\ task_queue # << >>
  /\ worker' = [worker EXCEPT ![w] = Locals(Head(task_queue))]
  /\ task_queue' = Tail(task_queue)
  /\ UNCHANGED <<allocVars, boxVars, queueVars, epoll_set, ready, fd_state, closes, sockbuf,
                 client, sent, fs_log, nreq>>

\* handle_client_request 183-216: one turn of the read loop.
HandleRead(w) ==
  /\ worker[w].pc = "read"
  /\ LET fd == worker[w].client_fd
         buf == worker[w].buffer \o sockbuf[fd]
     IN  IF sockbuf[fd] # << >>
         THEN /\ sockbuf' = [sockbuf EXCEPT ![fd] = << >>]
              /\ IF HasLine(buf)
                 THEN IF buf[Len(buf)].req.tokens = 3
                      THEN /\ worker' = [worker EXCEPT
                                ![w].buffer = buf,
                                ![w].request = buf[Len(buf)].req,
                                ![w].request_line_parsed = TRUE,
                                ![w].keep_alive = KeepAliveOf(buf[Len(buf)].req.version),
                                ![w].pc = "serve"]
                           /\ UNCHANGED sent
                      ELSE /\ worker' = [worker EXCEPT
                                ![w].buffer = buf, ![w].status = 400,
                                ![w].connection_active = FALSE,
                                ![w].pc = "serve"]
                           /\ sent' = [sent EXCEPT ![fd] = Append(@, 400)]
                 ELSE IF BufferFull(buf)
                 THEN /\ worker' = [worker EXCEPT
                           ![w].buffer = buf, ![w].status = 400,
                           ![w].connection_active = FALSE, ![w].pc = "serve"]
                      /\ sent' = [sent EXCEPT ![fd] = Append(@, 400)]
                 ELSE /\ worker' = [worker EXCEPT ![w].buffer = buf]
                      /\ UNCHANGED sent
         ELSE /\ worker' = [worker EXCEPT
                   ![w].connection_active =
                      IF client[fd].state \in {"eof", "reset"} THEN FALSE ELSE @,
                   ![w].pc = "serve"]
              /\ UNCHANGED <<sockbuf, sent>>
  /\ UNCHANGED <<allocVars, boxVars, queueVars, task_queue, epoll_set, ready, fd_state, closes,
                 client, fs_log, nreq>>

\* handle_client_request 218-283: answer the request that was parsed.
HandleServe(w) ==
  /\ worker[w].pc = "serve"
  /\ LET fd == worker[w].client_fd
         r == worker[w].request
         file_path_str == FilePath(r.uri)
     IN  IF worker[w].connection_active /\ worker[w].request_line_parsed
         THEN IF r.method = "GET"
              THEN IF FindDotDot(file_path_str)
                   THEN /\ sent' = [sent EXCEPT ![fd] = Append(@, 403)]
                        /\ worker' = [worker EXCEPT
                             ![w].status = 403, ![w].connection_active = FALSE,
                             ![w].pc = "finish"]
                        /\ UNCHANGED fs_log
                   ELSE \E f \in FsAnswers :
                          LET code == IF f = "file" THEN 200
                                      ELSE IF f = "unreadable" THEN 500
                                      ELSE 404
                          IN  /\ fs_log' = fs_log \cup {file_path_str}
                              /\ sent' = [sent EXCEPT ![fd] = Append(@, code)]
                              /\ worker' = [worker EXCEPT
                                   ![w].status = code,
                                   ![w].connection_active = (code = 200),
                                   ![w].pc = "finish"]
              ELSE /\ sent' = [sent EXCEPT ![fd] = Append(@, 405)]
                   /\ worker' = [worker EXCEPT
                        ![w].status = 405, ![w].connection_active = FALSE,
                        ![w].pc = "finish"]
                   /\ UNCHANGED fs_log
         ELSE /\ worker' = [worker EXCEPT ![w].pc = "finish"]
              /\ UNCHANGED <<sent, fs_log>>
  /\ UNCHANGED <<allocVars, boxVars, queueVars, task_queue, epoll_set, ready, fd_state, closes,
                 sockbuf, client, nreq>>

\* handle_client_request 285-300: close the connection, or register it
\* again; a registration that fails closes it too.
HandleFinish(w) ==
  /\ worker[w].pc = "finish"
  /\ LET fd == worker[w].client_fd
     IN  \E added \in BOOLEAN :
           IF ClosesAfter(worker[w].connection_active, worker[w].keep_alive)
              \/ ~added
           THEN /\ epoll_set' = EpollCtlDel(epoll_set, fd)
                /\ ready' = ready \ {fd}
                /\ fd_state' = [fd_state EXCEPT ![fd] = "closed"]
                /\ closes' = [closes EXCEPT ![fd] = @ + 1]
                /\ worker' = [worker EXCEPT ![w] = IdleWorker]
           ELSE /\ epoll_set' = epoll_set \cup {fd}
                /\ ready' = IF Readable(fd) THEN ready \cup {fd} ELSE ready
                /\ worker' = [worker EXCEPT ![w] = IdleWorker]
                /\ UNCHANGED <<fd_state, closes>>
  /\ UNCHANGED <<allocVars, boxVars, queueVars, task_queue, sockbuf, client, sent, fs_log, nreq>>

\* The server before any connection.
WebIdle ==
  /\ task_queue = << >>
  /\ epoll_set = {}
  /\ ready = {}
  /\ fd_state = [fd \in Conns |-> "none"]
  /\ closes = [fd \in Conns |-> 0]
  /\ sockbuf = [fd \in Conns |-> << >>]
  /\ client = [fd \in Conns |-> [state |-> "idle", tosend |-> << >>, done |-> 0]]
  /\ sent = [fd \in Conns |-> << >>]
  /\ fs_log = {}
  /\ worker = [w \in Workers |-> IdleWorker]
  /\ nreq = 0

\* ---- ThreadSafeQueue and the shutdown (README.md 118-144, 304-311, 409-417) -
\* The queue seen step by step: a worker's pop takes the mutex, evaluates
\* the predicate of cv_.wait, and either goes on or gives up the mutex and
\* blocks until it is notified (or wakes spuriously), then takes the mutex
\* again and evaluates the predicate again.  The n-th push puts the item n,
\* the fd of the n-th event.  handle_client_request, which does not touch
\* the queue, is one step here.  WorkerPop above is a pop that finds the
\* queue non-empty, as one step.
MaxPush == 3

webRest ==
  <<epoll_set, ready, fd_state, closes, sockbuf, client, sent, fs_log, nreq>>

\* 133: the predicate of cv_.wait.
WaitPredicate(queue, flag) == queue # << >> \/ flag

\* A pop that gives up as soon as shutdown is signalled.
PopFailsOnShutdown(queue, flag) == flag

\* 134: pop returns false.
PopFails(queue, flag) == flag /\ queue = << >>

\* The workers W are notified: they leave the wait and want the mutex.
Woken(W) ==
  /\ cv_waiters' = cv_waiters \ W
  /\ worker' = [w \in Workers |->
                  IF w \in W THEN [worker[w] EXCEPT !.pc = "woken"]
                  ELSE worker[w]]

\* 132: pop takes the mutex.
PopLock(w) ==
  /\ mode.kind = "queue"
  /\ worker[w].pc = "idle"
  /\ q_mutex = 0
  /\ q_mutex' = w
  /\ worker' = [worker EXCEPT ![w].pc = "check"]
  /\ UNCHANGED <<allocVars, boxVars, webRest, task_queue, shutdown,
                 cv_waiters, popped, main_pc>>

\* 133: cv_.wait evaluates the predicate with the mutex held.
PopCheck(w) ==
  /\ worker[w].pc = "check"
  /\ worker' = [worker EXCEPT ![w].pc =
                  IF WaitPredicate(task_queue, shutdown) THEN "take" ELSE "wait"]
  /\ UNCHANGED <<allocVars, boxVars, webRest, task_queue, queueVars>>

\* 133: the predicate was false: cv_.wait releases the mutex and blocks.
PopWait(w) ==
  /\ worker[w].pc = "wait"
  /\ q_mutex' = 0
  /\ cv_waiters' = cv_waiters \cup {w}
  /\ worker' = [worker EXCEPT ![w].pc = "blocked"]
  /\ UNCHANGED <<allocVars, boxVars, webRest, task_queue, shutdown, popped,
                 main_pc>>

\* A wait may end without a notification.
SpuriousWake(w) ==
  /\ worker[w].pc = "blocked"
  /\ w \in cv_waiters
  /\ Woken({w})
  /\ UNCHANGED <<allocVars, boxVars, webRest, task_queue, q_mutex, shutdown,
                 popped, main_pc>>

\* 133: a wait that has ended takes the mutex again.
PopWake(w) ==
  /\ worker[w].pc = "woken"
  /\ q_mutex = 0
  /\ q_mutex' = w
  /\ worker' = [worker EXCEPT ![w].pc = "check"]
  /\ UNCHANGED <<allocVars, boxVars, webRest, task_queue, shutdown,
                 cv_waiters, popped, main_pc>>

\* 134-137 and worker_loop 307-308: pop returns false and the worker ends,
\* or returns the front item, which the worker goes on to handle.
PopTake(w) ==
  /\ worker[w].pc = "take"
  /\ IF PopFails(task_queue, shutdown)
     THEN /\ worker' = [worker EXCEPT ![w].pc = "done"]
          /\ UNCHANGED <<task_queue, popped>>
     ELSE /\ worker' = [worker EXCEPT ![w] = Locals(Head(task_queue))]
          /\ task_queue' = Tail(task_queue)
          /\ popped' = Append(popped, [item |-> Head(task_queue), by |-> w])
  /\ q_mutex' = 0
  /\ UNCHANGED <<allocVars, boxVars, webRest, shutdown, cv_waiters, main_pc>>

\* worker_loop 308: handle_client_request runs and returns.
Handle(w) ==
  /\ mode.kind = "queue"
  /\ worker[w].pc = "read"
  /\ worker' = [worker EXCEPT ![w] = IdleWorker]
  /\ UNCHANGED <<allocVars, boxVars, webRest, task_queue, queueVars>>

\* main 398, 402 and push 127-131: with the mutex, push and notify_one.
MainPush ==
  /\ mode.kind = "queue"
  /\ main_pc = "loop"
  /\ q_mutex = 0
  /\ Len(popped) + Len(task_queue) < MaxPush
  /\ task_queue' = Append(task_queue, Len(popped) + Len(task_queue) + 1)
  /\ IF cv_waiters = {}
     THEN UNCHANGED <<cv_waiters, worker>>
     ELSE \E w \in cv_waiters : Woken({w})
  /\ UNCHANGED <<allocVars, boxVars, webRest, q_mutex, shutdown, popped,
                 main_pc>>

\* main 365-369: epoll_wait fails and the event loop is left.
MainBreak ==
  /\ mode.kind = "queue"
  /\ main_pc = "loop"
  /\ main_pc' = "flag"
  /\ UNCHANGED <<allocVars, boxVars, webVars, q_mutex, shutdown, cv_waiters,
                 popped>>

\* signal_shutdown 141: the flag is set, without the mutex.
SignalFlag ==
  /\ main_pc = "flag"
  /\ shutdown' = TRUE
  /\ main_pc' = "notify"
  /\ UNCHANGED <<allocVars, boxVars, webVars, q_mutex, cv_waiters, popped>>

\* signal_shutdown 142: notify_all, without the mutex.
SignalNotify ==
  /\ main_pc = "notify"
  /\ Woken(cv_waiters)
  /\ main_pc' = "join"
  /\ UNCHANGED <<allocVars, boxVars, webRest, task_queue, q_mutex, shutdown,
                 popped>>

\* main 412-414: every worker has been joined.
MainJoin ==
  /\ main_pc = "join"
  /\ \A w \in Workers : worker[w].pc = "done"
  /\ main_pc' = "end"
  /\ UNCHANGED <<allocVars, boxVars, webVars, q_mutex, shutdown, cv_waiters,
                 popped>>

\* The queue before the first push.
QueueIdle ==
  /\ q_mutex = 0
  /\ shutdown = FALSE
  /\ cv_waiters = {}
  /\ popped = << >>
  /\ main_pc = "loop"

\* ---- the container launcher (container.cpp, src/unnamed/part_000) ---------
\* Commands main runs before clone (89-107): mkdir, two commands for each of
\* the six binaries, and four more.
PrepareCommands == 1 + 2 * 6 + 4

\* Host network commands after veth1 has been moved (128-137).
BridgeCommands ==
  <<"addbr", "addif", "veth0_up", "bridge_up", "bridge_addr", "fwd_in",
    "fwd_out">>

\* What run_command reports for a command of the child on veth1: the
\* command works on an interface of the child's own namespace.
OnVeth1(ns) == IF ns = "child" THEN "ok" ELSE "failed"

NoNet == [link_up |-> "none", addr |-> "none", route |-> "none"]

\* main 85-107: the usage check and the commands that fill the new root.
MainPrepare ==
  /\ mode.kind = "box"
  /\ parent.pc = "prepare"
  /\ parent' = IF mode.size <= 1 THEN [parent EXCEPT !.pc = "done"]
               ELSE IF parent.n + 1 = PrepareCommands
               THEN [pc |-> "clone", n |-> 0]
               ELSE [parent EXCEPT !.n = @ + 1]
  /\ UNCHANGED <<allocVars, webVars, queueVars, child, veth1, host_net, child_net>>

\* main 117-121: clone the child into new pid, mount and net namespaces.
MainClone ==
  /\ parent.pc = "clone"
  /\ \E ok \in BOOLEAN :
       IF ok
       THEN /\ parent' = [parent EXCEPT !.pc = "cgroup"]
            /\ child' = "sleep"
       ELSE /\ parent' = [parent EXCEPT !.pc = "done"]
            /\ UNCHANGED child
  /\ UNCHANGED <<allocVars, webVars, queueVars, veth1, host_net, child_net>>

\* main 122: setup_cgroup(child_pid).
MainCgroup ==
  /\ parent.pc = "cgroup"
  /\ parent' = [parent EXCEPT !.pc = "link_add"]
  /\ host_net' = host_net \cup {"cgroup"}
  /\ UNCHANGED <<allocVars, webVars, queueVars, child, veth1, child_net>>

\* main 126: ip link add veth0 type veth peer name veth1.
MainLinkAdd ==
  /\ parent.pc = "link_add"
  /\ parent' = [parent EXCEPT !.pc = "link_netns"]
  /\ veth1' = "host"
  /\ UNCHANGED <<allocVars, webVars, queueVars, child, host_net, child_net>>

\* main 127: ip link set veth1 netns <child_pid>; it needs the child's
\* namespace to be there still.
MainLinkNetns ==
  /\ parent.pc = "link_netns"
  /\ parent' = [parent EXCEPT !.pc = "bridge"]
  /\ veth1' = IF child \in {"exited", "failed"} THEN veth1 ELSE "child"
  /\ UNCHANGED <<allocVars, webVars, queueVars, child, host_net, child_net>>

\* main 128-137: the bridge and the forwarding rules, a command a step.
MainBridge ==
  /\ parent.pc = "bridge"
  /\ host_net' = host_net \cup {BridgeCommands[parent.n + 1]}
  /\ parent' = IF parent.n + 1 = Len(BridgeCommands)
               THEN [pc |-> "waitpid", n |-> 0]
               ELSE [parent EXCEPT !.n = @ + 1]
  /\ UNCHANGED <<allocVars, webVars, queueVars, child, veth1, child_net>>

\* main 140-153: wait for the child, then clean up.
MainWait ==
  /\ parent.pc = "waitpid"
  /\ child \in {"exited", "failed"}
  /\ parent' = [parent EXCEPT !.pc = "done"]
  /\ UNCHANGED <<allocVars, webVars, queueVars, child, veth1, host_net, child_net>>

\* child_func 25: sleep(1).  It ends after a second, wherever main is.
ChildSleep ==
  /\ child = "sleep"
  /\ child' = "lo_up"
  /\ UNCHANGED <<allocVars, webVars, queueVars, parent, veth1, host_net, child_net>>

\* child_func 29: ip link set lo up.
ChildLoUp ==
  /\ child = "lo_up"
  /\ child' = "link_up"
  /\ UNCHANGED <<allocVars, webVars, queueVars, parent, veth1, host_net, child_net>>

\* child_func 30: ip link set veth1 up.
ChildLinkUp ==
  /\ child = "link_up"
  /\ child_net' = [child_net EXCEPT !.link_up = OnVeth1(veth1)]
  /\ child' = "addr"
  /\ UNCHANGED <<allocVars, webVars, queueVars, parent, veth1, host_net>>

\* child_func 31: ip addr add 10.0.0.2/24 dev veth1.
ChildAddr ==
  /\ child = "addr"
  /\ child_net' = [child_net EXCEPT !.addr = OnVeth1(veth1)]
  /\ child' = "route"
  /\ UNCHANGED <<allocVars, webVars, queueVars, parent, veth1, host_net>>

\* child_func 32: ip route add default via 10.0.0.1; the gateway has to be
\* reachable through an address that is up.
ChildRoute ==
  /\ child = "route"
  /\ child_net' = [child_net EXCEPT !.route =
                     IF child_net.link_up = "ok" /\ child_net.addr = "ok"
                        /\ veth1 = "child"
                     THEN "ok" ELSE "failed"]
  /\ child' = "root"
  /\ UNCHANGED <<allocVars, webVars, queueVars, parent, veth1, host_net>>

\* child_func 35-57: mount /proc, chroot, execv; each may fail and end the
\* child with 1.
ChildExec ==
  /\ child = "root"
  /\ \E ok \in BOOLEAN : child' = IF ok THEN "running" ELSE "failed"
  /\ UNCHANGED <<allocVars, webVars, queueVars, parent, veth1, host_net, child_net>>

\* The command the child runs ends; veth1 goes with its namespace.
ChildExit ==
  /\ child = "running"
  /\ child' = "exited"
  /\ veth1' = IF veth1 = "child" THEN "absent" ELSE veth1
  /\ UNCHANGED <<allocVars, webVars, queueVars, parent, host_net, child_net>>

\* Before main has run.
BoxIdle ==
  /\ parent = [pc |-> "prepare", n |-> 0]
  /\ child = "none"
  /\ veth1 = "absent"
  /\ host_net = {}
  /\ child_net = NoNet

\* ---- initial states --------------------------------------------------------
NoWords == [a \in {} |-> 0]
NoLocks == [alloc |-> 0, free |-> 0]
NoProbe == [s1 |-> 0, s2 |-> 0, done |-> FALSE, r1 |-> 0, r2 |-> 0]

\* The state after construction: nothing mapped, every list empty.  With
\* offset > 0 it is the state after offset / SPAN_SIZE large allocations
\* that were all deallocated again: their descriptors are used up for good.
Cold(m, offset) ==
  /\ mode = m
  /\ mem = NoWords
  /\ os_mapped = {}
  /\ page_map = NoWords
  /\ spans = NoWords
  /\ live_spans = {}
  /\ span_offset = offset
  /\ ph_mtx = 0
  /\ span_alloc_mutex = 0
  /\ tc_list = [c \in Classes |-> NULL]
  /\ tc_count = [c \in Classes |-> 0]
  /\ tc_mtx = [c \in Classes |-> 0]
  /\ free_lists = [t \in Threads |-> [c \in Classes |-> NULL]]
  /\ list_lengths = [t \in Threads |-> [c \in Classes |-> 0]]
  /\ pc = [t \in Threads |-> "idle"]
  /\ size = [t \in Threads |-> 0]
  /\ index = [t \in Threads |-> 0]
  /\ num_pages = [t \in Threads |-> 0]
  /\ new_mem = [t \in Threads |-> 0]
  /\ span = [t \in Threads |-> NULL]
  /\ caller = [t \in Threads |-> "none"]
  /\ ret = [t \in Threads |-> NULL]
  /\ live = {}
  /\ calls = [t \in Threads |-> 0]
  /\ nfree = 0
  /\ nlock = [t \in Threads |-> NoLocks]
  /\ op = [t \in Threads |-> "none"]
  /\ ptr = [t \in Threads |-> NULL]
  /\ probe = NoProbe
  /\ in_allocator = [t \in Threads |-> FALSE]
  /\ malloc_nodes = DOMAIN page_map
  /\ reentered = [t \in Threads |-> FALSE]
  /\ WebIdle
  /\ BoxIdle
  /\ QueueIdle

\* A state the program reaches with one page of class 0 (8 bytes) carved:
\* thread 1 allocated every block of the page and then freed the first
\* SCAVENGE_THRESHOLD of them in address order, so its cache is at the
\* threshold.  The other blocks are live; the callers free only the last
\* two of them during the run.  Calls are counted from here.
WarmSize == SIZE_CLASSES[1]
WarmBlock(i) == ShiftL(1) + i * (WarmSize + HEADER_SIZE)
WarmN == NumBlocks(WarmSize)

Warm(kind) ==
  /\ mode = [kind |-> kind, size |-> WarmSize, order |-> "up"]
  /\ mem = [a \in {WarmBlock(i) : i \in 0 .. (WarmN - 1)} |->
              LET i == (a - ShiftL(1)) \div (WarmSize + HEADER_SIZE)
              IN  IF i >= SCAVENGE_THRESHOLD THEN WarmSize
                  ELSE IF i = 0 THEN NULL
                  ELSE WarmBlock(i - 1)]
  /\ os_mapped = {1}
  /\ page_map = [q \in {1} |-> SpanPtr(0)]
  /\ spans = [x \in {SpanPtr(0)} |-> [start_page_id |-> 1, num_pages |-> 1]]
  /\ live_spans = {SpanPtr(0)}
  /\ span_offset = SPAN_SIZE
  /\ ph_mtx = 0
  /\ span_alloc_mutex = 0
  /\ tc_list = [c \in Classes |-> NULL]
  /\ tc_count = [c \in Classes |-> 0]
  /\ tc_mtx = [c \in Classes |-> 0]
  /\ free_lists = [t \in Threads |-> [c \in Classes |->
                     IF c = 0 /\ t = 1
                     THEN WarmBlock(SCAVENGE_THRESHOLD - 1) ELSE NULL]]
  /\ list_lengths = [t \in Threads |-> [c \in Classes |->
                       IF c = 0 /\ t = 1 THEN SCAVENGE_THRESHOLD ELSE 0]]
  /\ pc = [t \in Threads |-> "idle"]
  /\ size = [t \in Threads |-> 0]
  /\ index = [t \in Threads |-> 0]
  /\ num_pages = [t \in Threads |-> 0]
  /\ new_mem = [t \in Threads |-> 0]
  /\ span = [t \in Threads |-> NULL]
  /\ caller = [t \in Threads |-> "none"]
  /\ ret = [t \in Threads |-> NULL]
  /\ live = {[ptr |-> WarmBlock(i) + HEADER_SIZE, size |-> WarmSize,
              owner |-> IF i >= WarmN - 2 THEN 1 ELSE 0, id |-> 0 - i]
             : i \in SCAVENGE_THRESHOLD .. (WarmN - 1)}
  /\ calls = [t \in Threads |-> 0]
  /\ nfree = 0
  /\ nlock = [t \in Threads |-> NoLocks]
  /\ op = [t \in Threads |-> "none"]
  /\ ptr = [t \in Threads |-> NULL]
  /\ probe = NoProbe
  /\ in_allocator = [t \in Threads |-> FALSE]
  /\ malloc_nodes = DOMAIN page_map
  /\ reentered = [t \in Threads |-> FALSE]
  /\ WebIdle
  /\ BoxIdle
  /\ QueueIdle

\* Descriptors left in the pool at the start of a run.
PoolLeft == {1, SPAN_POOL_BYTES \div SPAN_SIZE}

Init ==
  \/ \E k \in PoolLeft :
       Cold([kind |-> "free", size |-> 1000, order |-> "up"],
            SPAN_POOL_BYTES - k * SPAN_SIZE)
  \/ Warm("free")

\* ---- next-state relations -------------------------------------------------
Next ==
  \E t \in Threads :
    \/ AllocCall(t)
    \/ FLock(t)
    \/ ASLock(t)
    \/ SMLock(t)
    \/ SMBump(t)
    \/ ASFill(t)
    \/ FCarve(t)
    \/ FXfer(t)
    \/ APop(t)
    \/ LargeRet(t)
    \/ DeallocCall(t)
    \/ DLookup(t)
    \/ DSLock(t)
    \/ DSErase(t)
    \/ RLock(t)
    \/ RSplice(t)

Spec == Init /\ [][Next]_vars

\* A step of thread t inside a call it has started.
InCall(t) ==
  \/ FLock(t)
  \/ ASLock(t)
  \/ SMLock(t)
  \/ SMBump(t)
  \/ ASFill(t)
  \/ FCarve(t)
  \/ FXfer(t)
  \/ APop(t)
  \/ LargeRet(t)
  \/ DLookup(t)
  \/ DSLock(t)
  \/ DSErase(t)
  \/ RLock(t)
  \/ RSplice(t)

\* Fair scheduling: a thread that can go on inside its call does go on.
\* Callers are not obliged to call.  The fair workload starts with thread
\* 1's cache at the threshold.
InitFair == Warm("fair")

SpecFair == InitFair /\ [][Next]_vars /\ \A t \in Threads : WF_vars(InCall(t))

\* The fair workload with threads that may end between their calls.
NextExit ==
  \/ Next
  \/ \E t \in Threads : ThreadExit(t)

SpecExit == InitFair /\ [][NextExit]_vars

\* A whole run: the calls, the ends of the threads, the end of the program.
NextRun ==
  \/ NextExit
  \/ StaticDestroy

SpecRun == InitFair /\ [][NextRun]_vars

\* The churn workload, from the state after construction; no release is
\* ever called in it.
InitChurn ==
  \E s \in SizesChurn : Cold([kind |-> "churn", size |-> s, order |-> "up"], 0)

NextChurn ==
  \E t \in Threads :
    \/ AllocCall(t)
    \/ FLock(t)
    \/ ASLock(t)
    \/ SMLock(t)
    \/ SMBump(t)
    \/ ASFill(t)
    \/ FCarve(t)
    \/ FXfer(t)
    \/ APop(t)
    \/ LargeRet(t)
    \/ DeallocCall(t)
    \/ DLookup(t)
    \/ DSLock(t)
    \/ DSErase(t)

SpecChurn == InitChurn /\ [][NextChurn]_vars

\* The scavenging workload, from the state after construction; only small
\* sizes are asked for.
InitScav ==
  \E s \in SizesScav, o \in {"up", "down"} :
    Cold([kind |-> "scav", size |-> s, order |-> o], 0)

NextScav ==
  \E t \in Threads :
    \/ AllocCall(t)
    \/ FLock(t)
    \/ ASLock(t)
    \/ SMLock(t)
    \/ SMBump(t)
    \/ ASFill(t)
    \/ FCarve(t)
    \/ FXfer(t)
    \/ APop(t)
    \/ DeallocCall(t)
    \/ RLock(t)
    \/ RSplice(t)

SpecScav == InitScav /\ [][NextScav]_vars

\* The cross-class workload: small sizes of two classes, from the warm
\* state.
InitCross == Warm("cross")

SpecCross == InitCross /\ [][NextScav]_vars

\* The size-class probe.
InitProbe == Cold([kind |-> "probe", size |-> 0, order |-> "up"], 0)

SpecProbe == InitProbe /\ [][Probe]_vars

\* The web server with its clients.
InitWeb == Cold([kind |-> "web", size |-> 0, order |-> "up"], 0)

NextWeb ==
  \/ \E fd \in Conns :
       \/ ClientConnect(fd)
       \/ ClientSend(fd)
       \/ ClientClose(fd)
       \/ MainAccept(fd)
       \/ MainEvent(fd)
  \/ \E w \in Workers :
       \/ WorkerPop(w)
       \/ HandleRead(w)
       \/ HandleServe(w)
       \/ HandleFinish(w)

SpecWeb == InitWeb /\ [][NextWeb]_vars

\* The task queue, its workers and the server's shutdown.
InitQueue == Cold([kind |-> "queue", size |-> 0, order |-> "up"], 0)

WorkerStep(w) ==
  \/ PopLock(w)
  \/ PopCheck(w)
  \/ PopWait(w)
  \/ PopWake(w)
  \/ PopTake(w)
  \/ Handle(w)

MainStep ==
  \/ SignalFlag
  \/ SignalNotify
  \/ MainJoin

NextQueue ==
  \/ \E w \in Workers : WorkerStep(w) \/ SpuriousWake(w)
  \/ MainStep
  \/ MainPush
  \/ MainBreak

SpecQueue == InitQueue /\ [][NextQueue]_vars

\* Threads that can run do run; a wait need not end by itself, and main
\* need not push or leave its loop.
SpecQueueFair ==
  /\ SpecQueue
  /\ \A w \in Workers : WF_vars(WorkerStep(w))
  /\ WF_vars(MainStep)

\* The container launcher, started with argc = mode.size.
InitBox ==
  \E argc \in {1, 2} : Cold([kind |-> "box", size |-> argc, order |-> "up"], 0)

NextBox ==
  \/ MainPrepare
  \/ MainClone
  \/ MainCgroup
  \/ MainLinkAdd
  \/ MainLinkNetns
  \/ MainBridge
  \/ MainWait
  \/ ChildSleep
  \/ ChildLoUp
  \/ ChildLinkUp
  \/ ChildAddr
  \/ ChildRoute
  \/ ChildExec
  \/ ChildExit

SpecBox == InitBox /\ [][NextBox]_vars

\* ======================= properties ======================================
\* ---- byte ranges of live allocations -------------------------------------
\* The bytes the caller of allocate(size) may use: the class's bytes for a
\* small request, the requested bytes for a large one.
PayloadBytes(lp) ==
  IF IsLarge(lp.size) THEN lp.size
  ELSE getClassSizeFromIndex(getSizeClassIndex(lp.size))

HeaderOf(lp) == lp.ptr - HEADER_SIZE
EndOf(lp) == lp.ptr + PayloadBytes(lp)

\* A payload of 2^63 bytes or more ends beyond the top of the address
\* space: the range wraps round 2^64.
Wraps(lp) == PayloadBytes(lp) < 0

\* The ranges of the live allocations, as <<header, payload end, wraps>>,
\* and their headers.
LiveRanges(L) == {<<HeaderOf(lp), EndOf(lp), Wraps(lp)>> : lp \in L}
LiveHeaders(L) == {HeaderOf(lp) : lp \in L}

\* No header but r's own lies in the range r.  A range that wraps runs to
\* the top of the address space and on from 0 to its end.
Alone(r, H) ==
  IF ~r[3]
  THEN \A x \in (r[1] + 1) .. (r[2] - 1) : x \notin H
  ELSE \A x \in H : x = r[1] \/ (x < r[1] /\ x >= r[2])

\* Two ranges overlap when the first byte of one lies in the other.
Disjoint(L) ==
  /\ Cardinality(LiveHeaders(L)) = Cardinality(L)
  /\ LET H == LiveHeaders(L)
     IN  \A r \in LiveRanges(L) : Alone(r, H)

\* C1: no two live allocations overlap: the byte ranges [header, payload
\* end) of any two pointers returned by allocate and not yet deallocated are
\* disjoint, for small and large allocations alike.
C1_NoOverlap == Disjoint(live)

\* The same for the allocations whose size does not wrap: the bytes the
\* allocator did reserve for two live pointers are disjoint.
NoOverlapUnwrapped ==
  /\ Cardinality(LiveHeaders(live)) = Cardinality(live)
  /\ Disjoint({lp \in live : ~Wraps(lp)})

\* ---- the page map ----------------------------------------------------------
SpanPages(sp) ==
  spans[sp].start_page_id .. (spans[sp].start_page_id + spans[sp].num_pages - 1)

\* C2: whenever no thread is inside a Page Heap critical section, the page
\* map holds exactly the page ids covered by live spans, each mapped to the
\* span that covers it, and no page id is covered by two live spans.
C2_PageMapExact ==
  ph_mtx = 0 =>
    /\ DOMAIN page_map = UNION {SpanPages(sp) : sp \in live_spans}
    /\ \A sp \in live_spans : \A q \in SpanPages(sp) : page_map[q] = sp
    /\ \A a \in live_spans : \A b \in live_spans :
         a # b => SpanPages(a) \cap SpanPages(b) = {}

\* C2's case: outside the critical sections, a live span covers a page that
\* a span deallocated before it covered.
C2_Witness ==
  /\ ph_mtx = 0
  /\ \E a \in live_spans : \E d \in DOMAIN spans \ live_spans :
       SpanPages(a) \cap SpanPages(d) # {}

\* ---- transfer caches -------------------------------------------------------
\* C3: for every size class, whenever the class's Transfer Cache lock is not
\* held, the Transfer Cache's count equals the number of blocks reachable
\* from its list head.
C3_CountIsListLength ==
  \A c \in Classes :
    tc_mtx[c] = 0 =>
      /\ tc_count[c] = ListLen(mem, tc_list[c])
      /\ ~Cyclic(mem, tc_list[c])

\* C3's case: a central list that was filled by a release and then served a
\* refill, with its lock free and another thread inside a call.
C3_Witness ==
  \E c \in Classes :
    /\ tc_mtx[c] = 0
    /\ tc_count[c] = SCAVENGE_THRESHOLD + 1 - BATCH
    /\ \E t \in Threads : pc[t] # "idle"

\* ---- scavenging ------------------------------------------------------------
\* Blocks on the class's central list when the scavenging worker starts to
\* free: every carved block is live, on the central list, or (none then) in
\* the worker's cache.
ScavCentralBefore ==
  NumBlocks(mode.size) * Cardinality(os_mapped) - (Cardinality(live) + nfree)

\* The worker has made its SCAVENGE_THRESHOLD + 1 deallocate calls.
ScavDone ==
  mode.kind = "scav" /\ nfree = SCAVENGE_THRESHOLD + 1 /\ pc[1] = "idle"

\* C4: starting from an empty Thread Cache for a class, 129 sequential
\* deallocate calls of blocks of that class leave the Thread Cache's count
\* at 129 - 32 = 97 and raise the class's Transfer Cache count by exactly 32.
C4_BatchOf32 ==
  ScavDone =>
    /\ list_lengths[1][ScavClass] = SCAVENGE_THRESHOLD + 1 - BATCH
    /\ tc_count[ScavClass] = ScavCentralBefore + BATCH

\* What releaseToTransferCache does instead: the whole list goes over.
ReleasesWholeList ==
  ScavDone =>
    /\ list_lengths[1][ScavClass] = 0
    /\ free_lists[1][ScavClass] = NULL
    /\ tc_count[ScavClass] = ScavCentralBefore + SCAVENGE_THRESHOLD + 1

\* ---- thread caches ---------------------------------------------------------
\* C5: after every allocate or deallocate call returns, each per-class count
\* in the calling thread's Thread Cache is between 0 and the scavenge
\* threshold 128 inclusive.
C5_CacheBounded ==
  \A t \in Threads :
    pc[t] = "idle" =>
      \A c \in Classes :
        list_lengths[t][c] >= 0 /\ list_lengths[t][c] <= SCAVENGE_THRESHOLD

\* C5's case: a deallocate has returned after it took the cache over the
\* threshold and released it to the central list.
C5_Witness ==
  \E t \in Threads : \E c \in Classes :
    /\ pc[t] = "idle"
    /\ op[t] = "deallocate"
    /\ calls[t] > 0
    /\ list_lengths[t][c] = 0
    /\ tc_count[c] > SCAVENGE_THRESHOLD

\* ---- the large path --------------------------------------------------------
\* The header before every live pointer of a large allocation holds the
\* size that was asked for.
LargeHeaderHoldsSize ==
  \A lp \in live : IsLarge(lp.size) => Read(mem, HeaderOf(lp)) = lp.size

\* The deallocate of a large pointer finds the span that starts at its
\* header's page.
LargeLookupStep(t) ==
  (pc[t] = "d_lookup" /\ pc'[t] # "d_lookup") =>
    /\ span'[t] # NULL
    /\ span'[t] \in live_spans
    /\ spans[span'[t]].start_page_id = PageOf(ptr[t] - HEADER_SIZE)

\* When deallocateSpan returns, every page the span covered is unmapped and
\* lookupSpan finds no span for it.
LargeEraseStep(t) ==
  (pc[t] = "ds_erase" /\ pc'[t] = "idle") =>
    \A q \in SpanPages(span[t]) :
      /\ lookupSpan(page_map', ShiftL(q)) = NULL
      /\ lookupSpan(page_map', ShiftL(q) + (PAGE_SIZE - 1)) = NULL
      /\ q \notin os_mapped'

\* C6: for every size s > 1024 for which allocate(s) succeeds, the header
\* before the returned pointer holds exactly s, and after deallocate on that
\* pointer lookupSpan on every page the span covered reports not found: the
\* whole span is unmapped and all its page-map entries are removed.
C6_LargeRoundTrip ==
  /\ []LargeHeaderHoldsSize
  /\ [][\A t \in Threads : LargeLookupStep(t) /\ LargeEraseStep(t)]_vars

\* C6's case: a deallocate of a two-page allocation has returned, and its
\* span's pages are gone from the page map.
C6_Witness ==
  \E t \in Threads :
    /\ pc[t] = "idle"
    /\ op[t] = "deallocate"
    /\ ptr[t] # NULL
    /\ IsLarge(size[t])
    /\ span[t] # NULL
    /\ spans[span[t]].num_pages = 2
    /\ \A q \in SpanPages(span[t]) : q \notin DOMAIN page_map

\* ---- churn -------------------------------------------------------------------
\* C7: for any small size and any number of iterations of allocate followed
\* at once by deallocate of the returned pointer, the spans the Page Heap
\* hands out for the class stay bounded by one page: one descriptor, one
\* mapped page.
C7_ChurnOnePage ==
  (mode.kind = "churn" /\ ~IsLarge(mode.size)) =>
    /\ Cardinality(os_mapped) <= 1
    /\ Cardinality(DOMAIN spans) <= 1
    /\ span_offset <= SPAN_SIZE

\* C7's case: MaxIter iterations are over and one page is mapped.
C7_Witness ==
  /\ mode.kind = "churn"
  /\ ~IsLarge(mode.size)
  /\ calls[1] = 2 * MaxIter
  /\ pc[1] = "idle"
  /\ live = {}
  /\ Cardinality(os_mapped) = 1
  /\ NumBlocks(mode.size) < MaxIter

\* ---- routing by size -------------------------------------------------------
\* The smallest configured class whose bytes hold s, for 1 <= s <= 1024.
LeastClass(s) ==
  CHOOSE c \in Classes :
    /\ SIZE_CLASSES[c + 1] >= s
    /\ \A d \in Classes : d < c => SIZE_CLASSES[d + 1] < s

IsSmallSize(s) == s >= 1 /\ s <= MAX_SMALL_ALLOC_SIZE

SmallEntry == {"f_lock", "a_pop"}

\* The step in which thread t enters allocate.
EntersAllocate(t) ==
  pc[t] = "idle" /\ calls'[t] = calls[t] + 1 /\ op'[t] = "allocate"

\* allocate(s) goes to the Thread Cache of class classify(s) iff
\* 1 <= s <= 1024, and to the Page Heap iff s > 1024.
RouteStep(t) ==
  EntersAllocate(t) =>
    LET s == size'[t]
    IN  /\ (pc'[t] \in SmallEntry) <=> IsSmallSize(s)
        /\ (pc'[t] = "as_lock" /\ caller'[t] = "large") <=> UGt(s, MAX_SMALL_ALLOC_SIZE)
        /\ pc'[t] \in SmallEntry => index'[t] = LeastClass(s)
        /\ (s = 8 /\ pc'[t] \in SmallEntry) => SIZE_CLASSES[index'[t] + 1] = 8
        /\ (s = 9 /\ pc'[t] \in SmallEntry) => SIZE_CLASSES[index'[t] + 1] = 16

\* A small allocate that returns a block took it from the head of the
\* caller's list of class classify(s) and stamped it with the class's bytes.
SmallServeStep(t) ==
  (pc[t] = "a_pop" /\ pc'[t] = "idle" /\ ret'[t] # NULL) =>
    LET c == LeastClass(size[t])
    IN  /\ IsSmallSize(size[t])
        /\ ret'[t] - HEADER_SIZE = free_lists[t][c]
        /\ list_lengths'[t][c] = list_lengths[t][c] - 1
        /\ Read(mem', ret'[t] - HEADER_SIZE) = SIZE_CLASSES[c + 1]

\* Thread t is on the large path of allocate or deallocate.
OnLargePath(t) ==
  \/ pc[t] \in {"as_lock", "sm_lock", "sm_bump", "as_fill"} /\ caller[t] = "large"
  \/ pc[t] \in {"large_ret", "d_lookup", "ds_lock", "ds_erase"}

\* The step in which thread t enters the large path.
EntersLargePath(t) ==
  /\ pc[t] = "idle"
  /\ calls'[t] = calls[t] + 1
  /\ pc'[t] \in {"as_lock", "d_lookup"}

\* A large allocate returns the first bytes of a span the Page Heap made
\* during the call, of the pages the request needs.
LargeServeStep(t) ==
  /\ (pc[t] = "as_fill" /\ caller[t] = "large" /\ span[t] # NULL) =>
       /\ span[t] \notin live_spans
       /\ span[t] \in live_spans'
       /\ spans'[span[t]].num_pages = LargePages(size[t])
  /\ (pc[t] = "large_ret" /\ pc'[t] = "idle" /\ ret'[t] # NULL) =>
       /\ span[t] \in live_spans
       /\ ret'[t] = ShiftL(spans[span[t]].start_page_id) + HEADER_SIZE

\* The lists of every Thread Cache and Transfer Cache, block by block.
CacheLists(m) ==
  <<[t \in Threads |-> [c \in Classes |-> ListSeq(m, free_lists[t][c])]],
    [c \in Classes |-> ListSeq(m, tc_list[c])]>>

\* A step of the large path leaves every Thread Cache and every Transfer
\* Cache as it was: heads, counts, locks and the blocks on the lists.
LargeFrameStep(t) ==
  ((OnLargePath(t) /\ pc'[t] # pc[t]) \/ EntersLargePath(t)) =>
    /\ UNCHANGED <<free_lists, list_lengths, tc_list, tc_count, tc_mtx>>
    /\ CacheLists(mem') = CacheLists(mem)

\* C8: allocate(s) takes the small path (Thread Cache of class classify(s))
\* iff 1 <= s <= 1024 and the large path iff s > 1024; allocate(8) is served
\* from class 8 and allocate(9) from class 16; the large path obtains a
\* fresh span directly from the Page Heap, and a large allocate/deallocate
\* leaves every Thread Cache and every Transfer Cache unchanged.
C8_RoutingBySize ==
  [][\A t \in Threads :
       /\ RouteStep(t)
       /\ SmallServeStep(t)
       /\ LargeServeStep(t)
       /\ LargeFrameStep(t)]_vars

\* C8's case: allocate(1025) went to the Page Heap and the pointer it
\* returned has been deallocated again.
C8_Witness ==
  /\ mode.kind = "churn"
  /\ mode.size = MAX_SMALL_ALLOC_SIZE + 1
  /\ pc[1] = "idle"
  /\ op[1] = "deallocate"
  /\ ptr[1] # NULL
  /\ span[1] # NULL
  /\ os_mapped = {}
  /\ \A c \in Classes : tc_count[c] = 0 /\ free_lists[1][c] = NULL

\* ---- classification --------------------------------------------------------
\* C9: for every size s with 0 < s <= 1024, getSizeClassIndex(s) returns the
\* index of the smallest configured class c with classBytes(c) >= s; for
\* s > 1024 it returns the LARGE sentinel (8); and s1 <= s2 implies
\* classify(s1) <= classify(s2).
C9_ClassifyCorrect ==
  probe.done =>
    /\ IsSmallSize(probe.s1) =>
         /\ probe.r1 \in Classes
         /\ probe.r1 = LeastClass(probe.s1)
    /\ UGt(probe.s1, MAX_SMALL_ALLOC_SIZE) => probe.r1 = NUM_CLASSES
    /\ ULe(probe.s1, probe.s2) => probe.r1 <= probe.r2
    /\ ULe(probe.s2, probe.s1) => probe.r2 <= probe.r1

\* C9's case: a size one above a class's bytes is probed beside the class's
\* bytes, and lands in the next class.
C9_Witness ==
  /\ probe.done
  /\ probe.s1 = SIZE_CLASSES[4] + 1
  /\ probe.s2 = SIZE_CLASSES[4]
  /\ probe.r1 = probe.r2 + 1

\* ---- a request for nothing -------------------------------------------------
\* allocate(0) returns at once with nullptr.
ZeroStep(t) ==
  (EntersAllocate(t) /\ size'[t] = 0) =>
    /\ ret'[t] = NULL
    /\ pc'[t] = "idle"
    /\ UNCHANGED <<mem, os_mapped, page_map, spans, live_spans, span_offset,
                   ph_mtx, span_alloc_mutex, tc_list, tc_count, tc_mtx,
                   free_lists, list_lengths, live>>

\* C10: allocate(0) returns null and changes nothing: no Thread Cache,
\* Transfer Cache, page map or descriptor-pool state is modified and no lock
\* is acquired.
C10_ZeroIsNull == [][\A t \in Threads : ZeroStep(t)]_vars

\* C10's case: allocate(0) has returned while blocks are cached, a span is
\* live and the other thread is inside a call.
C10_Witness ==
  \E t \in Threads :
    /\ pc[t] = "idle"
    /\ op[t] = "allocate"
    /\ size[t] = 0
    /\ ret[t] = NULL
    /\ live_spans # {}
    /\ \E u \in Threads : u # t /\ pc[u] # "idle"

\* ---- the null pointer ------------------------------------------------------
\* The step in which thread t enters deallocate.
EntersDeallocate(t) ==
  pc[t] = "idle" /\ calls'[t] = calls[t] + 1 /\ op'[t] = "deallocate"

\* deallocate(nullptr) returns at once: no header is read into size and
\* nothing of the allocator changes.
NullStep(t) ==
  (EntersDeallocate(t) /\ ptr'[t] = NULL) =>
    /\ pc'[t] = "idle"
    /\ size'[t] = size[t]
    /\ index'[t] = index[t]
    /\ UNCHANGED <<mem, os_mapped, page_map, spans, live_spans, span_offset,
                   ph_mtx, span_alloc_mutex, tc_list, tc_count, tc_mtx,
                   free_lists, list_lengths, live>>

\* C11: deallocate(null) is a no-op: it reads no header and leaves every
\* Thread Cache, Transfer Cache and the page map unchanged.
C11_NullIsNoOp == [][\A t \in Threads : NullStep(t)]_vars

\* C11's case: deallocate(nullptr) has returned while a page is in the page
\* map and the caller's cache holds blocks.
C11_Witness ==
  \E t \in Threads :
    /\ pc[t] = "idle"
    /\ op[t] = "deallocate"
    /\ ptr[t] = NULL
    /\ calls[t] > 0
    /\ DOMAIN page_map # {}
    /\ \E c \in Classes : list_lengths[t][c] > 0

\* ---- failure of the Page Heap ------------------------------------------------
\* Thread t takes a step.
Steps(t) == pc'[t] # pc[t] \/ calls'[t] # calls[t]

\* What a failing small allocate must leave alone.
SmallFrame ==
  UNCHANGED <<tc_list, tc_count, free_lists, list_lengths, mem, page_map,
              spans, live_spans, span_offset, live>>

\* allocateSpan, called by a refill, fails: the mapping fails and nothing
\* changes, or no descriptor is left and the mapping is given back.
SpanFailStep(t) ==
  /\ (pc[t] = "as_lock" /\ caller[t] = "fetch" /\ pc'[t] = "f_carve") =>
       /\ span'[t] = NULL
       /\ SmallFrame
       /\ UNCHANGED <<os_mapped, ph_mtx>>
  /\ (pc[t] = "as_fill" /\ caller[t] = "fetch" /\ span[t] = NULL /\ Steps(t)) =>
       /\ pc'[t] = "f_carve"
       /\ span'[t] = NULL
       /\ SmallFrame
       /\ os_mapped' = os_mapped \ {new_mem[t]}
       /\ ph_mtx' = 0

\* The refill that got no span returns with the central list and the
\* caller's list as they were: empty.
FetchFailStep(t) ==
  (pc[t] = "f_carve" /\ span[t] = NULL /\ Steps(t)) =>
    /\ pc'[t] = "a_pop"
    /\ SmallFrame
    /\ UNCHANGED os_mapped
    /\ tc_mtx'[index[t]] = 0
    /\ tc_count[index[t]] = 0
    /\ tc_list[index[t]] = NULL
    /\ free_lists[t][index[t]] = NULL
    /\ list_lengths[t][index[t]] = 0

\* allocate then returns nullptr.
AllocFailStep(t) ==
  (pc[t] = "a_pop" /\ free_lists[t][index[t]] = NULL /\ Steps(t)) =>
    /\ pc'[t] = "idle"
    /\ ret'[t] = NULL
    /\ SmallFrame
    /\ UNCHANGED <<os_mapped, tc_mtx, ph_mtx, span_alloc_mutex>>
    /\ list_lengths[t][index[t]] = 0

\* C12: when a small allocate finds its Thread Cache list and the class's
\* central list empty and the Page Heap cannot supply a span (the mapping
\* fails or the descriptor pool is exhausted), allocate returns null, the
\* Thread Cache stays empty with count 0, and the class's Transfer Cache
\* list and count are unchanged.
C12_FailureIsNull ==
  [][\A t \in Threads :
       SpanFailStep(t) /\ FetchFailStep(t) /\ AllocFailStep(t)]_vars

\* C12's case: a small allocate has returned nullptr because the descriptor
\* pool is exhausted, with every page mapped for it given back.
C12_Witness ==
  \E t \in Threads :
    /\ pc[t] = "idle"
    /\ op[t] = "allocate"
    /\ IsSmallSize(size[t])
    /\ ret[t] = NULL
    /\ ~PoolHasRoom(span_offset)
    /\ new_mem[t] # 0
    /\ new_mem[t] \notin os_mapped

\* ---- accesses and locks ------------------------------------------------------
\* The step of thread t reads or writes the list or count of the Transfer
\* Cache of class index[t] (allocator.cpp 96-136, 146-163).
TouchesCentral(t) == pc[t] \in {"f_carve", "f_xfer", "r_splice"}

\* The step of thread t reads or writes the page map (49, 74-76, 83-85).
TouchesPageMap(t) == pc[t] \in {"as_fill", "ds_erase"}

\* Every access of thread t's step is made with the lock held: taken by an
\* earlier step, or taken by this step before the access.
AccessUnderLock(t) ==
  Steps(t) =>
    /\ pc[t] = "f_lock" =>
         tc_mtx[index[t]] = 0 /\ tc_mtx'[index[t]] = t
    /\ TouchesCentral(t) => tc_mtx[index[t]] = t
    /\ pc[t] = "d_lookup" => ph_mtx = 0
    /\ TouchesPageMap(t) => ph_mtx = t
    /\ pc[t] = "sm_bump" => span_alloc_mutex = t

\* Whatever changes is changed by the thread that holds its lock.
WritesUnderLock ==
  /\ \A c \in Classes :
       (tc_list'[c] # tc_list[c] \/ tc_count'[c] # tc_count[c]) =>
         tc_mtx[c] # 0 /\ Steps(tc_mtx[c])
  /\ page_map' # page_map => ph_mtx # 0 /\ Steps(ph_mtx)
  /\ span_offset' # span_offset =>
       span_alloc_mutex # 0 /\ Steps(span_alloc_mutex)

\* C13: every read or write of a Transfer Cache's list or count happens
\* while that class's lock is held, every read or write of the page map
\* while the Page Heap lock is held, and every read or write of the
\* descriptor pool's offset while its lock is held.
C13_RaceFree ==
  [][WritesUnderLock /\ \A t \in Threads : AccessUnderLock(t)]_vars

\* C13's case: one thread is inside the critical section of a central list
\* while the other waits for the same lock.
C13_Witness ==
  \E t \in Threads : \E u \in Threads :
    /\ t # u
    /\ TouchesCentral(t)
    /\ tc_mtx[index[t]] = t
    /\ pc[u] \in {"f_lock", "r_lock"}
    /\ index[u] = index[t]

\* ---- lock amortization -------------------------------------------------------
CeilDiv(a, b) == (a + b - 1) \div b

\* Allocate calls the scavenging worker has made.
ScavAllocs == calls[1] - nfree

\* C14: a thread performing M allocations followed by M deallocations of one
\* small size class takes the class's Transfer Cache lock at most ceil(M/32)
\* times during the allocations and at most ceil(M/32) times during the
\* deallocations.
C14_LockPerBatch ==
  (mode.kind = "scav" /\ pc[1] = "idle") =>
    /\ nlock[1].alloc <= CeilDiv(ScavAllocs, BATCH)
    /\ nlock[1].free <= CeilDiv(nfree, BATCH)

\* What the code keeps: one lock for every SCAVENGE_THRESHOLD + 1 blocks
\* freed, and during the allocations one for every refill, which moves
\* BATCH blocks or what is left of a page.
LocksTaken ==
  (mode.kind = "scav" /\ pc[1] = "idle") =>
    /\ nlock[1].free <= CeilDiv(nfree, SCAVENGE_THRESHOLD + 1)
    /\ nlock[1].alloc <=
         CeilDiv(ScavAllocs, NumBlocks(mode.size))
           * CeilDiv(NumBlocks(mode.size), BATCH)

\* ---- termination -------------------------------------------------------------
\* C15: under fair scheduling and any interleaving of calls, every allocate
\* and deallocate call eventually returns: no deadlock among the Transfer
\* Cache locks, the Page Heap lock and the descriptor-pool lock.
C15_CallsReturn == \A t \in Threads : (pc[t] # "idle") ~> (pc[t] = "idle")

\* C15's case: one thread holds a Transfer Cache lock, the Page Heap lock
\* and the descriptor-pool lock at once while the other waits for the Page
\* Heap lock.
C15_Witness ==
  \E t \in Threads : \E u \in Threads :
    /\ t # u
    /\ tc_mtx[index[t]] = t
    /\ ph_mtx = t
    /\ span_alloc_mutex = t
    /\ pc[u] \in {"as_lock", "d_lookup", "ds_lock"}

\* ---- the fast path -----------------------------------------------------------
\* Locks, central lists, page map, pool and OS mappings.
SharedFrame == UNCHANGED <<tc_list, tc_count, tc_mtx, os_mapped, page_map,
                           spans, live_spans, span_offset, ph_mtx,
                           span_alloc_mutex>>

\* Every word but the one at address a is as it was.
OnlyWordChanged(a) ==
  /\ DOMAIN mem \subseteq DOMAIN mem'
  /\ \A x \in DOMAIN mem : x # a => mem'[x] = mem[x]
  /\ DOMAIN mem' \subseteq DOMAIN mem \cup {a}

\* Thread t holds no lock.
HoldsNoLock(t) ==
  /\ ph_mtx # t
  /\ span_alloc_mutex # t
  /\ \A c \in Classes : tc_mtx[c] # t

\* A small allocate that finds a block on its list goes straight to the pop.
FastAllocEntry(t) ==
  (/\ EntersAllocate(t)
   /\ IsSmallSize(size'[t])
   /\ free_lists[t][LeastClass(size'[t])] # NULL) =>
    /\ pc'[t] = "a_pop"
    /\ SharedFrame
    /\ UNCHANGED mem

\* The pop touches the caller's cache and the block it takes.
FastPopStep(t) ==
  (pc[t] = "a_pop" /\ Steps(t)) =>
    /\ pc'[t] = "idle"
    /\ HoldsNoLock(t)
    /\ SharedFrame
    /\ OnlyWordChanged(free_lists[t][index[t]])

\* A small deallocate that leaves the count at or below the threshold
\* returns in one step that touches the caller's cache and the block.
FastFreeStep(t) ==
  (/\ EntersDeallocate(t)
   /\ ptr'[t] # NULL
   /\ ~IsLarge(Read(mem, ptr'[t] - HEADER_SIZE))
   /\ list_lengths'[t][index'[t]] <= SCAVENGE_THRESHOLD) =>
    /\ pc'[t] = "idle"
    /\ HoldsNoLock(t)
    /\ SharedFrame
    /\ OnlyWordChanged(ptr'[t] - HEADER_SIZE)

\* C16: a small allocate whose Thread Cache list for the class is non-empty,
\* and a small deallocate that leaves the class count at or below 128,
\* acquire no lock at all and touch no shared state.
C16_FastPathLockFree ==
  [][\A t \in Threads :
       FastAllocEntry(t) /\ FastPopStep(t) /\ FastFreeStep(t)]_vars

\* C16's case: a deallocate has returned leaving its cache at the threshold
\* while the other thread holds the class's Transfer Cache lock.
C16_Witness ==
  \E t \in Threads : \E u \in Threads : \E c \in Classes :
    /\ t # u
    /\ pc[t] = "idle"
    /\ op[t] = "deallocate"
    /\ calls[t] > 0
    /\ list_lengths[t][c] = SCAVENGE_THRESHOLD
    /\ tc_mtx[c] = u

\* ---- one lock per class ------------------------------------------------------
\* The class of the call thread t is in: of the size asked for, or of the
\* size read from the header.
ClassOfCall(t) == LeastClass(size[t])

\* The Transfer Cache locks thread t holds.
CentralLocksOf(t) == {c \in Classes : tc_mtx[c] = t}

\* A thread holds at most one Transfer Cache lock, and only its call's.
OwnClassLockOnly ==
  \A t \in Threads :
    /\ Cardinality(CentralLocksOf(t)) <= 1
    /\ \A c \in CentralLocksOf(t) :
         /\ pc[t] # "idle"
         /\ IsSmallSize(size[t])
         /\ c = ClassOfCall(t)

\* A step takes no Transfer Cache lock but that of the call's class, and a
\* thread waiting for a class's lock goes on as soon as that lock is free,
\* whatever other locks are held.
TakesOwnClassLock(t) ==
  /\ \A c \in Classes :
       (tc_mtx[c] # t /\ tc_mtx'[c] = t) =>
         /\ tc_mtx[c] = 0
         /\ IsSmallSize(size[t])
         /\ c = ClassOfCall(t)
  /\ (pc[t] = "f_lock" /\ tc_mtx[ClassOfCall(t)] = 0) => ENABLED FLock(t)
  /\ (pc[t] = "r_lock" /\ tc_mtx[ClassOfCall(t)] = 0) => ENABLED RLock(t)

\* A small-path call that finds blocks on the central list takes no other
\* lock: the refill goes on to the transfer and the pop; a release is the
\* splice alone.
NoOtherLock(t) ==
  /\ (pc[t] = "f_lock" /\ tc_count[index[t]] > 0 /\ Steps(t)) =>
       pc'[t] = "f_xfer"
  /\ (pc[t] = "f_xfer" /\ Steps(t)) => pc'[t] = "a_pop"
  /\ (pc[t] = "r_splice" /\ Steps(t)) => pc'[t] = "idle"
  /\ pc[t] \in {"f_xfer", "a_pop", "r_lock", "r_splice"} =>
       ph_mtx # t /\ span_alloc_mutex # t

\* C17: an allocate or deallocate on size class i never acquires the
\* Transfer Cache lock of any class j # i, no thread ever holds two Transfer
\* Cache locks at once, and small-path calls on different classes whose
\* central lists are non-empty share no lock.
C17_PerClassLocks ==
  /\ []OwnClassLockOnly
  /\ [][\A t \in Threads : TakesOwnClassLock(t) /\ NoOtherLock(t)]_vars

\* C17's case: the two threads hold the Transfer Cache locks of two
\* classes at the same time.
C17_Witness ==
  \E t \in Threads : \E u \in Threads :
    /\ t # u
    /\ CentralLocksOf(t) # {}
    /\ CentralLocksOf(u) # {}
    /\ CentralLocksOf(t) # CentralLocksOf(u)

\* ---- system calls under a lock -----------------------------------------------
\* Thread t's next step calls mmap (allocator.cpp 56) or munmap (64, 82).
AtSyscall(t) ==
  \/ pc[t] \in {"as_lock", "ds_lock"}
  \/ pc[t] = "as_fill" /\ span[t] = NULL

\* C18: no thread performs an OS mapping (mmap) or unmapping (munmap) call
\* while it holds a Transfer Cache lock.
C18_NoSyscallUnderCentralLock ==
  \A t \in Threads : AtSyscall(t) => CentralLocksOf(t) = {}

\* What the code keeps: the system calls of the large path are made with no
\* Transfer Cache lock held; those of a refill are made with the class's
\* lock held throughout.
SyscallLocks ==
  \A t \in Threads :
    AtSyscall(t) =>
      IF pc[t] = "ds_lock" \/ caller[t] = "large"
      THEN CentralLocksOf(t) = {}
      ELSE CentralLocksOf(t) = {index[t]}


\* ---- C19 -------------------------------------------------------------------
\* Blocks the thread pushes, traverses or moves in the step it is about to
\* take while it holds its class's lock: the carving loop of 110-116 pushes
\* every block of the page, the loop of 125-127 walks blocks_to_transfer
\* blocks, the loop of 151-154 walks the whole thread list.
WorkUnderLock(t) ==
  IF pc[t] = "f_carve" /\ span[t] # NULL
  THEN NumBlocks(getClassSizeFromIndex(index[t]))
  ELSE IF pc[t] = "f_xfer" THEN BlocksToTransfer(tc_count[index[t]])
  ELSE IF pc[t] = "r_splice" THEN list_lengths[t][index[t]]
  ELSE 0

\* C19: between taking and dropping a class's Transfer Cache lock a thread
\* pushes, traverses or moves at most BATCH blocks, in every refill and
\* every release.
C19_BoundedLockWork ==
  \A t \in Threads :
    CentralLocksOf(t) # {} => WorkUnderLock(t) <= BATCH

\* What the code does bound by BATCH: the blocks a refill moves to the
\* thread cache.  The carving is bounded by the blocks of a page and the
\* release by the threshold plus one.
LockWorkBounds ==
  \A t \in Threads :
    /\ pc[t] = "f_xfer" => WorkUnderLock(t) <= BATCH
    /\ pc[t] = "f_carve" =>
         WorkUnderLock(t) <= NumBlocks(SIZE_CLASSES[1])
    /\ pc[t] = "r_splice" => WorkUnderLock(t) = SCAVENGE_THRESHOLD + 1


\* ---- C20 -------------------------------------------------------------------
\* A step of thread t leaves the list heads and the counts of every other
\* thread as they were.
OthersCachesKept(t) ==
  \A u \in Threads \ {t} :
    /\ free_lists'[u] = free_lists[u]
    /\ list_lengths'[u] = list_lengths[u]

\* What a step of thread t takes from a Thread Cache it takes from t's own:
\* allocate's test for an empty list (183), the block popped (189), the
\* count release tests (140), the list release hands over (156-160), and
\* the list a refill leaves is stored in t's cache (131-136).
OwnCacheUsed(t) ==
  LET c == index[t]
  IN  /\ (pc[t] = "idle" /\ pc'[t] \in {"f_lock", "a_pop"}) =>
           (pc'[t] = "a_pop" <=> free_lists[t][index'[t]] # NULL)
      /\ (pc[t] = "a_pop" /\ ret'[t] # NULL) =>
           /\ ret'[t] = free_lists[t][c] + HEADER_SIZE
           /\ list_lengths'[t][c] = list_lengths[t][c] - 1
      /\ pc[t] = "r_lock" =>
           (pc'[t] = "idle" <=> list_lengths[t][c] = 0)
      /\ pc[t] = "r_splice" =>
           /\ tc_list'[c] = free_lists[t][c]
           /\ tc_count'[c] = tc_count[c] + list_lengths[t][c]
           /\ free_lists'[t][c] = NULL /\ list_lengths'[t][c] = 0
      /\ (pc[t] = "f_xfer" /\ tc_list[c] # NULL) =>
           /\ free_lists'[t][c] = tc_list[c]
           /\ list_lengths'[t][c] = BlocksToTransfer(tc_count[c])

\* C20: a Thread Cache is owned by its thread: every allocate, deallocate,
\* refill and release executed by thread t reads and writes only t's own
\* per-class list heads and counts and leaves every other thread's Thread
\* Cache unchanged.
C20_CacheOwnedByThread ==
  [][\A t \in Threads :
       Steps(t) => OthersCachesKept(t) /\ OwnCacheUsed(t)]_vars

\* Thread t has released its list of a class to the Transfer Cache while
\* the cache of another thread, filled by that thread's own allocate, still
\* holds its blocks of the same class.
C20_Witness ==
  \E t \in Threads, u \in Threads, c \in Classes :
    /\ t # u
    /\ pc[t] = "idle" /\ pc[u] = "idle"
    /\ op[t] = "deallocate" /\ list_lengths[t][c] = 0
    /\ tc_count[c] > SCAVENGE_THRESHOLD
    /\ op[u] = "allocate" /\ list_lengths[u][c] > 0
    /\ free_lists[u][c] # NULL


\* ---- C21 -------------------------------------------------------------------
\* Thread t is inside g_allocator.allocate or g_allocator.deallocate, called
\* by a hook.
InsideAllocator(t) == pc[t] # "idle"

\* C21: while a thread executes g_allocator.allocate or deallocate through
\* operator new/delete its flag is set, every nested operator new/delete of
\* the thread is served by std::malloc/std::free and none re-enters
\* g_allocator, so every node of the page map is std::malloc's; the flag is
\* false again whenever the outermost hook call has returned.
C21_HooksDoNotReenter ==
  /\ \A t \in Threads :
       /\ InsideAllocator(t) <=> in_allocator[t]
       /\ ~reentered[t]
  /\ malloc_nodes = DOMAIN page_map

\* A thread is back from a deallocate of a large block whose span's nodes
\* went to std::free, after an allocate whose nodes came from std::malloc.
C21_Witness ==
  \E t \in Threads :
    /\ pc[t] = "idle" /\ ~in_allocator[t]
    /\ op[t] = "deallocate" /\ IsLarge(size[t])
    /\ span[t] # NULL /\ spans[span[t]].start_page_id \notin malloc_nodes
    /\ spans[span[t]].start_page_id \notin DOMAIN page_map
    /\ malloc_nodes # {}


\* ---- C22 -------------------------------------------------------------------
\* The string has two dots in a row.
ContainsDotDot(str) ==
  \E i \in DOMAIN str : i + 1 \in DOMAIN str /\ str[i] = "." /\ str[i + 1] = "."

\* Worker w is about to answer a GET whose URI contains "..".
ServesTraversal(w) ==
  /\ worker[w].pc = "serve"
  /\ worker[w].connection_active /\ worker[w].request_line_parsed
  /\ worker[w].request.method = "GET"
  /\ ContainsDotDot(worker[w].request.uri)

\* The step of w answers 403 and asks the filesystem nothing.
Answers403(w) ==
  LET fd == worker[w].client_fd
  IN  /\ sent'[fd] = Append(sent[fd], 403)
      /\ fs_log' = fs_log
      /\ worker'[w].pc = "finish"
      /\ ~worker'[w].connection_active

\* The step of w closes its connection and leaves it unregistered.
ClosesConnection(w) ==
  LET fd == worker[w].client_fd
  IN  /\ fd_state'[fd] = "closed"
      /\ closes'[fd] = closes[fd] + 1
      /\ fd \notin epoll_set'

ServedOK(w) ==
  /\ worker[w].request_line_parsed
  /\ worker[w].request.method = "GET"
  /\ worker[w].request.version = "HTTP/1.1"
  /\ worker[w].status = 200

\* Worker w is at the end of handle_client_request (285) and takes a step.
Finishes(w) == worker[w].pc = "finish" /\ worker'[w] # worker[w]

\* The step of w leaves its connection registered and open.
KeepsConnection(w) ==
  LET fd == worker[w].client_fd
  IN  /\ fd \in epoll_set'
      /\ fd_state'[fd] = "open"
      /\ closes'[fd] = 0

\* A close is never repeated, and only open fds are registered.
ClosedOnce ==
  \A fd \in Conns :
    /\ closes[fd] <= 1
    /\ closes[fd] = 1 <=> fd_state[fd] = "closed"
    /\ fd \in epoll_set => fd_state[fd] = "open"

\* After a served HTTP/1.1 GET the worker can register the fd again.
CanKeep ==
  \A w \in Workers :
    (worker[w].pc = "finish" /\ ServedOK(w)) =>
      ENABLED (HandleFinish(w) /\ KeepsConnection(w))

\* C23: when a worker finishes with a client fd, after an HTTP/1.1 GET that
\* was served the fd is registered with epoll again and left open, unless
\* the registration fails; in every other outcome, and when the
\* registration fails, the fd is removed from epoll and closed exactly once.
C23_KeepAlive ==
  /\ [](ClosedOnce /\ CanKeep)
  /\ [][\A w \in Workers :
          Finishes(w) =>
            IF ServedOK(w)
            THEN KeepsConnection(w) \/ ClosesConnection(w)
            ELSE ClosesConnection(w)]_vars

\* A connection that was kept after a served HTTP/1.1 GET has had a second
\* request answered and was closed after it, once.
C23_Witness ==
  \E fd \in Conns :
    /\ Len(sent[fd]) = 2 /\ sent[fd][1] = 200
    /\ fd_state[fd] = "closed" /\ closes[fd] = 1
    /\ \A w \in Workers : worker[w].pc = "idle"


\* ---- C24 -------------------------------------------------------------------
\* Worker w has read a part of a request line whose client is connected
\* and has the rest of the line still to send.
MidRequest(w) ==
  LET fd == worker[w].client_fd
  IN  /\ worker[w].buffer # << >>
      /\ client[fd].state = "up"
      /\ client[fd].tosend # << >>

\* C24: a connection whose client delivers a complete request line, be it
\* split across several reads or readiness events, is sent an HTTP
\* response and is not closed without one: a worker never closes a
\* connection in the middle of a request line that is still arriving
\* unless a response has been sent on it.
C24_SplitLineAnswered ==
  [][\A w \in Workers :
       (Finishes(w) /\ MidRequest(w) /\ ClosesConnection(w)) =>
         sent'[worker[w].client_fd] # << >>]_vars

\* What the read loop does give: a line it has read to its end, also in
\* several reads, has been answered when the worker comes to line 285.
ReadLineAnswered ==
  \A w \in Workers :
    (worker[w].pc = "finish" /\ HasLine(worker[w].buffer)) =>
      LET out == sent[worker[w].client_fd]
      IN  /\ worker[w].status # 0
          /\ out # << >>
          /\ out[Len(out)] = worker[w].status


\* ---- C25 -------------------------------------------------------------------
\* The child runs one of its commands on veth1 (child_func 30-32).
ChildConfigures == child \in {"link_up", "addr", "route"} /\ child' # child

\* main has created the veth pair and moved veth1 to the child (126-127).
Veth1Moved == parent.pc \in {"bridge", "waitpid", "done"} /\ veth1 = "child"

\* C25: in every interleaving of parent and child, the child configures
\* veth1 (link up, address 10.0.0.2/24, default route) only after the
\* parent has created the veth pair and moved veth1 into the child's
\* network namespace.
C25_ConfigAfterMove == [][ChildConfigures => Veth1Moved]_vars

\* What holds without the order: a command of the child succeeds only when
\* veth1 had been moved before it ran.
ConfigNeedsMove ==
  /\ child_net.link_up = "ok" => parent.pc \in {"bridge", "waitpid", "done"}
  /\ child_net.addr = "ok" => parent.pc \in {"bridge", "waitpid", "done"}
  /\ child_net.route = "ok" => child_net.link_up = "ok" /\ child_net.addr = "ok"


\* ---- C26 -------------------------------------------------------------------
\* floor(4096 / (classBytes(class) + header size)), at least 1.
BlocksPerPage(c) ==
  LET q == 4096 \div (SIZE_CLASSES[c + 1] + 8) IN IF q = 0 THEN 1 ELSE q

\* The refill of thread t asks the Page Heap for a span exactly when the
\* class's central count is 0, and then for one page.
SpanOnlyWhenEmpty(t) ==
  (pc[t] = "f_lock" /\ Steps(t)) =>
    /\ pc'[t] = "as_lock" <=> tc_count[index[t]] = 0
    /\ pc'[t] = "as_lock" => num_pages'[t] = 1 /\ caller'[t] = "fetch"
    /\ pc'[t] \in {"as_lock", "f_xfer"}

\* The carving step of thread t pushes BlocksPerPage blocks of the span's
\* one page onto the central list, first block deepest, and counts them;
\* each block lies inside the page and none overlaps the one pushed
\* before it.
CarvesWholePage(t) ==
  (pc[t] = "f_carve" /\ span[t] # NULL /\ Steps(t)) =>
    LET c == index[t]
        n == BlocksPerPage(c)
        bytes == SIZE_CLASSES[c + 1] + 8
        page == spans[span[t]].start_page_id * 4096
        after == ListSeq(mem', tc_list'[c])
    IN  /\ spans[span[t]].num_pages = 1
        /\ tc_count'[c] = tc_count[c] + n
        /\ Len(after) = ListLen(mem, tc_list[c]) + n
        /\ SubSeq(after, n + 1, Len(after)) = ListSeq(mem, tc_list[c])
        /\ \A i \in 1 .. n :
             /\ after[i] >= page
             /\ after[i] + bytes <= page + 4096
             /\ i < n => after[i + 1] + bytes <= after[i]
        /\ pc'[t] = "f_xfer"

\* C26: fetchFromTransferCache asks the Page Heap for a span only when the
\* class's central count is 0, then for exactly one page; it carves the
\* page into floor(4096 / (classBytes + header)) blocks (at least 1),
\* pushes them all and raises the count by that number; every block lies
\* inside the page and the blocks are pairwise disjoint.
C26_RefillCarving ==
  [][\A t \in Threads : SpanOnlyWhenEmpty(t) /\ CarvesWholePage(t)]_vars

\* A refill found blocks on the central list and asked for no span, after
\* an earlier refill of the class had carved a page.
C26_Witness ==
  \E t \in Threads :
    /\ pc[t] = "f_xfer" /\ op[t] = "allocate"
    /\ calls[t] = BATCH + 1
    /\ tc_count[index[t]] = BlocksPerPage(index[t]) - BATCH
    /\ Cardinality(os_mapped) = 1


\* ---- C27 -------------------------------------------------------------------
\* The transfer step of a refill that finds blocks on the central list
\* moves the first k = min(32, count) of them to the thread's empty list,
\* under the class's lock, which it then drops.
MovesBatch(t) ==
  (pc[t] = "f_xfer" /\ tc_list[index[t]] # NULL /\ Steps(t)) =>
    LET c == index[t]
        k == IF tc_count[c] < 32 THEN tc_count[c] ELSE 32
        before == ListSeq(mem, tc_list[c])
        central == ListSeq(mem', tc_list'[c])
        mine == ListSeq(mem', free_lists'[t][c])
    IN  /\ tc_mtx[c] = t /\ tc_mtx'[c] = 0
        /\ free_lists[t][c] = NULL /\ list_lengths[t][c] = 0
        /\ mine = SubSeq(before, 1, k)
        /\ Len(mine) = k /\ list_lengths'[t][c] = k
        /\ tc_count'[c] = tc_count[c] - k
        /\ central = SubSeq(before, k + 1, Len(before))
        /\ \A i \in 1 .. Len(central), j \in 1 .. k : central[i] # mine[j]

\* C27: in one critical section a successful refill moves exactly
\* k = min(32, central count) blocks from the head of the central list to
\* the requesting, empty Thread Cache: afterwards the thread's list has
\* exactly k blocks and count k, the central count is k less, and no moved
\* block is reachable from the central list.
C27_RefillTransfer == [][\A t \in Threads : MovesBatch(t)]_vars

\* A refill has moved fewer than 32 blocks, all the central list had, after
\* an earlier refill of the class had moved 32.
C27_Witness ==
  \E t \in Threads :
    /\ pc[t] = "a_pop" /\ op[t] = "allocate"
    /\ calls[t] = BATCH + 1
    /\ list_lengths[t][index[t]] = BlocksPerPage(index[t]) - BATCH
    /\ list_lengths[t][index[t]] < BATCH
    /\ tc_count[index[t]] = 0 /\ tc_list[index[t]] = NULL


\* ---- C28 -------------------------------------------------------------------
\* The pages the running allocateSpan of t has mapped.
NewPages(t) == new_mem[t] .. (new_mem[t] + num_pages[t] - 1)

InsideAllocateSpan(t) == pc[t] \in {"sm_lock", "sm_bump", "as_fill"}

\* A failed mapping returns at once, with nothing changed.
MmapFailureClean(t) ==
  (pc[t] = "as_lock" /\ Steps(t) /\ pc'[t] # "sm_lock") =>
    /\ pc'[t] = AfterSpan(t) /\ span'[t] = NULL
    /\ UNCHANGED <<page_map, span_offset, os_mapped, ph_mtx>>

\* A full pool hands out no descriptor and keeps its offset; allocateSpan
\* then unmaps every page it had mapped and returns nullptr.
PoolFailureClean(t) ==
  /\ (pc[t] = "sm_bump" /\ Steps(t) /\ ~PoolHasRoom(span_offset)) =>
       span'[t] = NULL /\ UNCHANGED <<page_map, span_offset, os_mapped>>
  /\ (pc[t] = "as_fill" /\ Steps(t) /\ span[t] = NULL) =>
       /\ pc'[t] = AfterSpan(t) /\ span'[t] = NULL /\ ph_mtx' = 0
       /\ UNCHANGED <<page_map, span_offset>>
       /\ NewPages(t) \cap os_mapped' = {}
       /\ os_mapped' = os_mapped \ NewPages(t)
       /\ os_mapped' = DOMAIN page_map

\* While allocateSpan runs nobody else touches the page map, the pool or
\* the mappings, and its own mapping is of pages nothing else had.
CallUndisturbed(t) ==
  InsideAllocateSpan(t) =>
    /\ ph_mtx = t
    /\ NewPages(t) \subseteq os_mapped
    /\ NewPages(t) \cap DOMAIN page_map = {}
    /\ os_mapped \ NewPages(t) = DOMAIN page_map

OthersKeepOff(t) ==
  (InsideAllocateSpan(t) /\ ~Steps(t)) =>
    UNCHANGED <<page_map, span_offset, os_mapped>>

\* C28: if the OS mapping fails or the descriptor pool is exhausted,
\* allocateSpan returns failure with the page map and the pool offset as
\* they were at the call, and every page it mapped unmapped again.
C28_AllocateSpanFailsCleanly ==
  /\ [](\A t \in Threads : CallUndisturbed(t))
  /\ [][\A t \in Threads :
          MmapFailureClean(t) /\ PoolFailureClean(t) /\ OthersKeepOff(t)]_vars

\* allocateSpan has failed on the full pool: the one descriptor the pool
\* had went to a span elsewhere, and the pages this call mapped are gone.
C28_Witness ==
  \E t \in Threads :
    /\ pc[t] \in {"large_ret", "f_carve"} /\ span[t] = NULL
    /\ ~PoolHasRoom(span_offset)
    /\ live_spans # {}
    /\ new_mem[t] # 0 /\ new_mem[t] \notin os_mapped
    /\ \A sp \in DOMAIN spans : spans[sp].start_page_id # new_mem[t]


\* ---- C29 -------------------------------------------------------------------
\* Descriptors the pool can hold: sizeof(span_memory) / sizeof(Span).
PoolCapacity == SPAN_POOL_BYTES \div SPAN_SIZE

PoolFull == span_offset + SPAN_SIZE > SPAN_POOL_BYTES

\* Every descriptor handed out lies in the pool, below the offset; the
\* descriptors of spans, live or deallocated, are as many as the successful
\* allocateSpan calls, each of which got a descriptor of its own.
DescriptorsInPool ==
  /\ span_offset <= SPAN_POOL_BYTES
  /\ span_offset % SPAN_SIZE = 0
  /\ DOMAIN spans \subseteq 1 .. (span_offset \div SPAN_SIZE)
  /\ live_spans \subseteq DOMAIN spans
  /\ Cardinality(DOMAIN spans) <= PoolCapacity

NeverRecycled(t) ==
  /\ span_offset' >= span_offset
  /\ DOMAIN spans \subseteq DOMAIN spans'
  /\ (pc[t] \in {"ds_lock", "ds_erase"} /\ Steps(t)) =>
       span_offset' = span_offset
  /\ (pc[t] = "as_fill" /\ Steps(t) /\ span[t] # NULL) =>
       /\ span[t] \notin DOMAIN spans
       /\ span[t] * SPAN_SIZE = span_offset
       /\ DOMAIN spans' = DOMAIN spans \cup {span[t]}
  /\ (pc[t] = "as_fill" /\ Steps(t) /\ span[t] = NULL) =>
       spans' = spans /\ span'[t] = NULL
  /\ (pc[t] = "sm_bump" /\ Steps(t) /\ PoolFull) =>
       span'[t] = NULL /\ span_offset' = span_offset
  /\ (pc[t] = "sm_bump" /\ Steps(t) /\ ~PoolFull) =>
       span'[t] # NULL /\ span_offset' = span_offset + SPAN_SIZE

\* C29: the descriptor-pool offset only grows and deallocateSpan never
\* lowers it, so the successful allocateSpan calls never exceed the pool's
\* capacity of 40960 / sizeof(Span) descriptors; once the pool is full every
\* later allocateSpan fails, also when every span has been deallocated.
C29_DescriptorsNeverRecycled ==
  /\ []DescriptorsInPool
  /\ [][\A t \in Threads : NeverRecycled(t)]_vars

\* The pool is full, every span made has been deallocated, and an
\* allocateSpan that mapped its pages has returned nullptr all the same.
C29_Witness ==
  \E t \in Threads :
    /\ PoolFull /\ live_spans = {} /\ DOMAIN spans # {} /\ os_mapped = {}
    /\ pc[t] = "large_ret" /\ span[t] = NULL
    /\ new_mem[t] # 0 /\ ph_mtx = 0
    /\ \A sp \in DOMAIN spans : spans[sp].start_page_id # new_mem[t]
    /\ \A u \in Threads \ {t} : pc[u] = "idle"


\* ---- C30 -------------------------------------------------------------------
\* A span of pages pages holds s bytes and the header.  A negative s stands
\* for 2^64 + s, which with the header is more than 2^63 bytes: beyond any
\* span of at most MaxPages pages.
CoversRequest(pages, s) ==
  IF s < 0 THEN FALSE ELSE ShiftL(pages) >= s + HEADER_SIZE

\* C30: for every size s > 1024 for which allocate(s) returns non-null, the
\* span requested covers at least s + header size bytes, also for s close to
\* the maximum of size_t, where s + header size or the round-up wraps.
C30_LargeBigEnough ==
  \A t \in Threads :
    (pc[t] = "large_ret" /\ span[t] # NULL) =>
      /\ spans[span[t]].num_pages = num_pages[t]
      /\ CoversRequest(num_pages[t], size[t])


\* ---- C31 -------------------------------------------------------------------
SmallLive(lp) ==
  lp.ptr # NULL /\ lp.size >= 1 /\ lp.size <= MAX_SMALL_ALLOC_SIZE

\* The header before a live small pointer holds the bytes of its class.
HeaderStamped ==
  \A lp \in live :
    SmallLive(lp) =>
      Read(mem, lp.ptr - HEADER_SIZE)
        = SIZE_CLASSES[getSizeClassIndex(lp.size) + 1]

\* deallocate of a live small pointer finds the class of the request again
\* and pushes the block onto the head of the caller's list of that class.
RoundTripStep(t) ==
  \A lp \in live :
    (EntersDeallocate(t) /\ lp \notin live' /\ SmallLive(lp)) =>
      LET c == getSizeClassIndex(lp.size)
          header == lp.ptr - HEADER_SIZE
      IN  /\ index'[t] = c
          /\ free_lists'[t][c] = header
          /\ Read(mem', header) = free_lists[t][c]
          /\ list_lengths'[t][c] = list_lengths[t][c] + 1
          /\ \A d \in Classes \ {c} :
               /\ free_lists'[t][d] = free_lists[t][d]
               /\ list_lengths'[t][d] = list_lengths[t][d]
          /\ \A u \in Threads \ {t} :
               free_lists'[u] = free_lists[u] /\ list_lengths'[u] = list_lengths[u]

\* C31: a pointer returned by allocate(s), 1 <= s <= 1024, is preceded by a
\* header holding the bytes of the class of s; deallocate of it, by
\* whichever thread, classifies the stored size back to that class and
\* pushes the block onto the head of the calling thread's list for the
\* class, adding one to its count.
C31_SmallRoundTrip ==
  /\ []HeaderStamped
  /\ [][\A t \in Threads : RoundTripStep(t)]_vars

\* A thread that never allocated has freed another thread's block of a
\* request below its class's bytes, and holds it at the head of its list.
C31_Witness ==
  \E t \in Threads :
    /\ pc[t] = "idle" /\ op[t] = "deallocate" /\ calls[t] = 1
    /\ ptr[t] # NULL
    /\ \E c \in Classes :
         /\ free_lists[t][c] = ptr[t] - HEADER_SIZE
         /\ list_lengths[t][c] = 1
         /\ mode.size < SIZE_CLASSES[c + 1]
         /\ getSizeClassIndex(mode.size) = c


\* ---- C32 -------------------------------------------------------------------
\* The blocks of the size classes: on a Transfer Cache list, on a Thread
\* Cache list, or held by a caller.
ListedBlocks ==
  UNION ({Range(ListSeq(mem, tc_list[c])) : c \in Classes}
         \cup {Range(ListSeq(mem, free_lists[t][c])) :
                 t \in Threads, c \in Classes})

HeldBlocks == {lp.ptr - HEADER_SIZE : lp \in {x \in live : SmallLive(x)}}

\* The pages of spans made for a size class: those of its blocks, and the
\* span a refill is about to carve.
SmallPages ==
  {PageOf(b) : b \in ListedBlocks \cup HeldBlocks}
    \cup UNION {SpanPages(span[t]) :
                  t \in {u \in Threads : pc[u] = "f_carve" /\ span[u] # NULL}}

SmallPagesMapped ==
  \A q \in SmallPages :
    q \in os_mapped /\ q \in DOMAIN page_map /\ page_map[q] \in live_spans

\* No step unmaps a page of a size class, or changes or removes its entry in
\* the page map, or ends its span.
SmallPagesStay ==
  \A q \in SmallPages :
    /\ q \in os_mapped'
    /\ q \in DOMAIN page_map' /\ page_map'[q] = page_map[q]
    /\ page_map[q] \in live_spans'

\* deallocateSpan runs on the span of a large allocation only.
UnmapsLargeOnly(t) ==
  (pc[t] = "ds_lock" /\ Steps(t)) =>
    /\ IsLarge(size[t])
    /\ ShiftL(spans[span[t]].start_page_id) = ptr[t] - HEADER_SIZE
    /\ SpanPages(span[t]) \cap SmallPages = {}

\* C32: deallocateSpan is only ever invoked on spans created by the
\* large-allocation path, so a span carved for a size class stays mapped and
\* its page-map entry stays, whatever allocate and deallocate calls follow.
C32_SmallSpansStay ==
  /\ []SmallPagesMapped
  /\ [][SmallPagesStay /\ \A t \in Threads : UnmapsLargeOnly(t)]_vars

\* A large span has been deallocated while a span of a size class, one of
\* whose blocks a caller holds, is mapped.
C32_Witness ==
  /\ DOMAIN spans \ live_spans # {}
  /\ \A t \in Threads : pc[t] = "idle"
  /\ \E t \in Threads : op[t] = "deallocate" /\ IsLarge(size[t]) /\ ptr[t] # NULL
  /\ \E lp \in live : SmallLive(lp) /\ lp.owner # 0
  /\ SmallPages # {}


\* ---- C33 -------------------------------------------------------------------
Exited == {t \in Threads : pc[t] = "exited"}

BlocksOf(t) ==
  UNION {Range(ListSeq(mem, free_lists[t][c])) : c \in Classes}

CentralBlocks == UNION {Range(ListSeq(mem, tc_list[c])) : c \in Classes}

\* The blocks on the lists of threads that have ended.
LeakedBlocks == UNION {BlocksOf(t) : t \in Exited}

\* A leaked block is on no Transfer Cache list, on no running thread's list
\* and in no caller's hands.
LeakedNowhereElse ==
  LET leaked == LeakedBlocks
  IN  /\ leaked \cap CentralBlocks = {}
      /\ \A u \in Threads \ Exited : leaked \cap BlocksOf(u) = {}
      /\ \A lp \in live : lp.ptr - HEADER_SIZE \notin leaked

\* The end of a thread moves nothing, and nothing touches its lists after.
NoTeardown(t) ==
  /\ (pc[t] # "exited" /\ pc'[t] = "exited") =>
       UNCHANGED <<mem, tc_list, tc_count, free_lists, list_lengths, live>>
  /\ pc[t] = "exited" =>
       /\ pc'[t] = "exited"
       /\ free_lists'[t] = free_lists[t]
       /\ list_lengths'[t] = list_lengths[t]
       /\ \A b \in BlocksOf(t) : Read(mem', b) = Read(mem, b)

\* No allocate returns a leaked block.
ReturnsNoLeaked(u) ==
  (pc[u] = "a_pop" /\ Steps(u) /\ ret'[u] # NULL) =>
    ret'[u] - HEADER_SIZE \notin LeakedBlocks

\* C33: no teardown runs when a thread ends, so the blocks then on its
\* Thread Cache lists are never moved to a Transfer Cache and allocate
\* never again returns them to any other thread.
C33_ThreadExitLeak ==
  /\ []LeakedNowhereElse
  /\ [][\A t \in Threads : NoTeardown(t) /\ ReturnsNoLeaked(t)]_vars

\* Thread 1 has ended with its cache at the threshold, and an allocate of
\* the same class by another thread had a new page mapped for it.
C33_Witness ==
  /\ pc[1] = "exited" /\ list_lengths[1][0] >= SCAVENGE_THRESHOLD
  /\ \E u \in Threads \ {1} :
       /\ pc[u] = "idle" /\ op[u] = "allocate" /\ ret[u] # NULL
       /\ size[u] = WarmSize
       /\ PageOf(ret[u]) # PageOf(free_lists[1][0])


\* ---- C34 -------------------------------------------------------------------
\* No thread is inside a call.
Quiescent == \A t \in Threads : pc[t] \in {"idle", "exited"}

\* The lists: <<0, c>> the Transfer Cache's, <<t, c>> thread t's, of class c.
ListKeys == ({0} \cup Threads) \X Classes

HeadOf(k) == IF k[1] = 0 THEN tc_list[k[2]] ELSE free_lists[k[1]][k[2]]

BlocksAt(k) == ListSeq(mem, HeadOf(k))

\* The small allocations callers hold.
SmallHeld == {lp \in live : SmallLive(lp)}

\* The blocks a page carved for class c consists of.
Grid(p, c) ==
  {ShiftL(p) + i * (SIZE_CLASSES[c + 1] + HEADER_SIZE) :
     i \in 0 .. (PAGE_SIZE \div (SIZE_CLASSES[c + 1] + HEADER_SIZE) - 1)}

\* The blocks found in a place of class c: on one of its lists, or held by a
\* caller who asked for a size of the class.
PlacedOfClass(c) ==
  UNION {Range(BlocksAt(k)) : k \in {j \in ListKeys : j[2] = c /\ HeadOf(j) # NULL}}
    \cup {lp.ptr - HEADER_SIZE :
            lp \in {x \in SmallHeld : getSizeClassIndex(x.size) = c}}

\* C34: at every quiescent state every block carved from a span of a size
\* class is in exactly one place (held by a caller, on one thread's list, or
\* on a Transfer Cache list), never in two and never lost, and only ever on
\* lists of the class it was carved for.
C34_BlockConservation ==
  Quiescent =>
    LET keys == {k \in ListKeys : HeadOf(k) # NULL}
    IN  /\ \A k \in keys :
             LET blocks == BlocksAt(k)
             IN  /\ Cardinality(Range(blocks)) = Len(blocks)
                 /\ \A j \in keys \ {k} : Range(blocks) \cap Range(BlocksAt(j)) = {}
                 /\ \A lp \in SmallHeld : lp.ptr - HEADER_SIZE \notin Range(blocks)
        /\ \A lp \in SmallHeld : \A lq \in SmallHeld :
             lp # lq => lp.ptr # lq.ptr
        /\ \A c \in Classes :
             LET placed == PlacedOfClass(c)
             IN  \A p \in {PageOf(b) : b \in placed} :
                   {b \in placed : PageOf(b) = p} = Grid(p, c)

\* The blocks of one page are in all three kinds of place at once: some on
\* the Transfer Cache list, some on a thread's list, some with callers, one
\* of them allocated during the run.
C34_Witness ==
  /\ Quiescent
  /\ \E c \in Classes :
       /\ tc_count[c] > 0 /\ tc_list[c] # NULL
       /\ \E t \in Threads : list_lengths[t][c] > 0
       /\ \E lp \in SmallHeld :
            /\ getSizeClassIndex(lp.size) = c /\ lp.id > 0
            /\ PageOf(lp.ptr) = PageOf(tc_list[c])


\* ---- C35 -------------------------------------------------------------------
\* C35: after every allocate, deallocate, refill or release, for every class
\* a thread's list_lengths[class] is the number of blocks reachable from its
\* free_lists[class], and it is 0 exactly when the head is null.
C35_CacheCountsExact ==
  \A t \in Threads : \A c \in Classes :
    /\ list_lengths[t][c] = ListLen(mem, free_lists[t][c])
    /\ ~Cyclic(mem, free_lists[t][c])
    /\ (list_lengths[t][c] = 0) = (free_lists[t][c] = NULL)

\* An allocate has returned after a refill from a central list that a
\* release had filled: the refill left BATCH blocks, the pop took one.
C35_Witness ==
  \E t \in Threads : \E c \in Classes :
    /\ pc[t] = "idle" /\ op[t] = "allocate" /\ ret[t] # NULL
    /\ list_lengths[t][c] = BATCH - 1
    /\ tc_count[c] = SCAVENGE_THRESHOLD + 1 - BATCH
    /\ \E u \in Threads \ {t} : op[u] = "deallocate" /\ list_lengths[u][c] = 0


\* ---- C36 -------------------------------------------------------------------
\* Where a thread waits for a lock.
WaitsForCentral(t) == pc[t] \in {"f_lock", "r_lock"}
WaitsForPageHeap(t) == pc[t] \in {"as_lock", "d_lookup", "ds_lock"}
WaitsForPool(t) == pc[t] = "sm_lock"

\* The locks a thread holds were taken in the order Transfer Cache, Page
\* Heap, descriptor pool; it waits for none that comes before one it holds.
LockOrderKept ==
  \A t \in Threads :
    /\ WaitsForCentral(t) => HoldsNoLock(t)
    /\ WaitsForPageHeap(t) => ph_mtx # t /\ span_alloc_mutex # t
    /\ WaitsForPool(t) => span_alloc_mutex # t /\ ph_mtx = t
    /\ span_alloc_mutex = t => ph_mtx = t
    /\ Cardinality(CentralLocksOf(t)) <= 1

\* A step takes a Transfer Cache lock with no other lock held, the Page Heap
\* lock without the pool's, and one lock at most; and no call of allocate or
\* deallocate, nested ones included, starts with a lock held.
TakesInOrder(t) ==
  LET central == \E c \in Classes : tc_mtx[c] # t /\ tc_mtx'[c] = t
      heap == ph_mtx # t /\ ph_mtx' = t
      pool == span_alloc_mutex # t /\ span_alloc_mutex' = t
  IN  /\ central => HoldsNoLock(t) /\ ~heap /\ ~pool
      /\ heap => span_alloc_mutex # t /\ ~pool
      /\ pool => ph_mtx = t
      /\ (EntersAllocate(t) \/ EntersDeallocate(t)) => HoldsNoLock(t)
      /\ (reentered'[t] /\ ~reentered[t]) => HoldsNoLock(t)

\* C36: a thread that holds more than one allocator lock took them in the
\* order Transfer Cache lock of one class, Page Heap lock, descriptor-pool
\* lock; no thread waits for a Transfer Cache lock while it holds the Page
\* Heap lock or the pool lock, nor for the Page Heap lock while it holds the
\* pool lock.
C36_LockOrder ==
  /\ []LockOrderKept
  /\ [][\A t \in Threads : TakesInOrder(t)]_vars

\* A refill holds all three locks while the other thread waits for one.
C36_Witness ==
  \E t \in Threads :
    /\ CentralLocksOf(t) # {} /\ ph_mtx = t /\ span_alloc_mutex = t
    /\ \E u \in Threads \ {t} :
         WaitsForCentral(u) \/ WaitsForPageHeap(u)


\* ---- C37 -------------------------------------------------------------------
\* A pointer a delete hook passes to g_allocator.deallocate is one allocate
\* returned and a caller still holds.
PassesOwnPointers(t) ==
  (EntersDeallocate(t) /\ ~in_allocator[t] /\ ptr'[t] # NULL) =>
    \E lp \in live : lp.ptr = ptr'[t] /\ lp \notin live'

\* A node of the page map that a step releases goes to std::free: it leaves
\* std::malloc's nodes and no hook hands it to g_allocator.
NodesGoToFree ==
  \A q \in malloc_nodes :
    q \notin DOMAIN page_map' =>
      q \notin malloc_nodes' /\ reentered' = reentered

\* C37: over a whole run, static destruction of g_allocator included, every
\* pointer the operator delete hooks pass to g_allocator.deallocate was
\* returned by g_allocator.allocate, and every pointer std::malloc returned
\* under the guard, such as a node of the page map, is released through
\* std::free only, never through g_allocator.deallocate.
C37_HookPairing ==
  [][NodesGoToFree /\ \A t \in Threads : PassesOwnPointers(t)]_vars


\* ---- C40 -------------------------------------------------------------------
\* The workers that are handling fd, and the places fd has in the queue.
HandlersOf(fd) ==
  {w \in Workers : worker[w].pc # "idle" /\ worker[w].client_fd = fd}

QueuedAt(fd) == {i \in DOMAIN task_queue : task_queue[i] = fd}

\* An fd is in one place at most: registered, queued once, or with one
\* worker.
OnePlace ==
  \A fd \in Conns :
    /\ Cardinality(HandlersOf(fd)) <= 1
    /\ Cardinality(QueuedAt(fd)) <= 1
    /\ ~(QueuedAt(fd) # {} /\ HandlersOf(fd) # {})
    /\ fd \in epoll_set => QueuedAt(fd) = {} /\ HandlersOf(fd) = {}

\* main takes the fd out of epoll in the step that queues it; only the
\* worker that handles an fd registers it again, and with that it is done.
HandOver ==
  \A fd \in Conns :
    /\ QueuedAt(fd)' # QueuedAt(fd) /\ QueuedAt(fd) = {} =>
         fd \in epoll_set /\ fd \notin epoll_set'
    /\ (fd \notin epoll_set /\ fd \in epoll_set' /\ fd_state[fd] = "open") =>
         \E w \in HandlersOf(fd) :
           worker[w].pc = "finish" /\ worker'[w].pc = "idle"

\* C40: a client fd is never handled by two workers at the same time and is
\* never twice in the task queue: the main loop removes it from epoll before
\* it queues it and only the worker handling it registers it again, as its
\* last action on it; an fd is never registered in epoll while it is queued
\* or being handled.
C40_SingleHandler == []OnePlace /\ [][HandOver]_vars

\* A kept-alive fd is queued a second time, registered again by the worker
\* that answered its first request, while more data came in; the other
\* connection is being handled.
C40_Witness ==
  \E fd \in Conns :
    /\ QueuedAt(fd) # {} /\ Len(sent[fd]) >= 1 /\ sockbuf[fd] # << >>
    /\ \E other \in Conns \ {fd} : HandlersOf(other) # {}

\* ---- C38: the task queue ---------------------------------------------------
\* The items pop has returned, in the order it returned them.
PoppedItems == [i \in 1 .. Len(popped) |-> popped[i].item]

\* What has been pushed is what has been popped followed by what is still
\* queued, and it is 1, 2, 3, ... in the order of the pushes: nothing is
\* lost, returned twice or returned out of order.
FifoOnce ==
  PoppedItems \o task_queue = [i \in 1 .. Len(popped) + Len(task_queue) |-> i]

\* A worker handling an item is the worker whose pop returned it, and it
\* is the last one that pop returned to this worker.
HandlesOwnItem ==
  \A w \in Workers :
    worker[w].pc = "read" =>
      \E i \in 1 .. Len(popped) :
        /\ popped[i] = [item |-> worker[w].client_fd, by |-> w]
        /\ \A j \in i + 1 .. Len(popped) : popped[j].by # w

\* Once a pop has returned false nothing is left in the queue: what was
\* pushed before the shutdown has been delivered.
DeliveredBeforeFalse ==
  (\E w \in Workers : worker[w].pc = "done") =>
    shutdown /\ task_queue = << >>

\* A worker is in the wait only after it found the queue empty, and with
\* the mutex released.
WaitersFoundEmpty ==
  \A w \in Workers :
    /\ worker[w].pc = "wait" => task_queue = << >> /\ q_mutex = w
    /\ worker[w].pc = "blocked" => w \in cv_waiters /\ q_mutex # w

\* One step of one pop: with the queue empty and no shutdown it goes to
\* wait; it returns false only with the shutdown signalled and the queue
\* empty; and when it returns an item that is the front of the queue, taken
\* off it and handed to this worker.
PopSteps ==
  \A w \in Workers :
    /\ (worker[w].pc = "check" /\ task_queue = << >> /\ ~shutdown) =>
         worker'[w].pc \in {"check", "wait"}
    /\ (worker[w].pc = "take" /\ worker'[w].pc = "done") =>
         shutdown /\ task_queue = << >>
    /\ (worker[w].pc = "take" /\ worker'[w].pc = "read") =>
         /\ task_queue # << >>
         /\ worker'[w].client_fd = Head(task_queue)
         /\ task_queue' = Tail(task_queue)
    /\ (worker'[w].pc = "read" /\ worker[w].pc # "read") =>
         /\ worker[w].pc = "take"
         /\ popped' = Append(popped, [item |-> Head(task_queue), by |-> w])

\* C38: every fd pushed onto the ThreadSafeQueue is returned by one pop of
\* one worker, in the order of the pushes; pop waits while the queue is
\* empty and shutdown has not been signalled, and returns false only when
\* shutdown has been signalled and the queue is empty, so that what was
\* pushed before the shutdown is still delivered.
C38_QueueFifoOnce ==
  /\ [](FifoOnce /\ HandlesOwnItem /\ DeliveredBeforeFalse /\ WaitersFoundEmpty)
  /\ [][PopSteps]_vars

\* Every push has been delivered, by both workers, both have had false
\* from pop and main has joined them.
C38_Witness ==
  /\ main_pc = "end"
  /\ Len(popped) = MaxPush
  /\ \A w \in Workers : \E i \in 1 .. Len(popped) : popped[i].by = w

\* Under fair scheduling whatever is queued is popped.
QueuedIsPopped == \A n \in 1 .. MaxPush :
  (\E i \in 1 .. Len(task_queue) : task_queue[i] = n) ~>
    (\E i \in 1 .. Len(popped) : popped[i].item = n)

\* ---- C39: the shutdown -----------------------------------------------------
\* signal_shutdown has returned: the flag is set and notify_all is done.
Signalled == main_pc \in {"join", "end"}

\* A worker in the wait that no notification will come for any more.
Stranded(w) == Signalled /\ task_queue = << >> /\ worker[w].pc = "blocked"

\* C39: after signal_shutdown has been called and the queue has drained,
\* every worker that was blocked or about to block in pop returns false
\* and ends, so that the joins of main complete: no worker is left in the
\* wait once signal_shutdown has returned and the queue is empty.
C39_ShutdownWakesAll == \A w \in Workers : ~Stranded(w)

\* The same as a property of fair runs: once signal_shutdown has returned
\* the joins complete.
JoinsComplete == Signalled ~> main_pc = "end"

====
